---- MODULE Spec2Model ----
(***************************************************************************)
(* A model of the ElevenLabs bridge backend: the consumption aggregator    *)
(* and the batch outbound dispatcher of services/elevenlabs_service.py and *)
(* the webhook ingress of api/main.py.                                     *)
(*                                                                         *)
(* Units.  Python floats are modelled by exact integers in a fixed unit:   *)
(*   durations  : milliseconds (duration_secs = 3 is 3000)                 *)
(*   credits    : whole credits                                            *)
(*   USD amounts: whole cents                                              *)
(*   sleep delay: hundredths of a second (1.0 s is 100)                    *)
(* Optional[...] values use None == -1; every numeric field value of an    *)
(* upstream record is a natural number.                                    *)
(***************************************************************************)
EXTENDS Integers, Sequences, FiniteSets, TLC

VARIABLES
    pc,              \* position of the running function
    xi_api_key,      \* XI_API_KEY is configured (non-empty)
    start_unix_ts,   \* the usage window passed to the aggregator
    end_unix_ts,
    \* ---- get_agent_consumption_data locals
    attempt,         \* the round, 1..MAX_RETRIES
    vidx,            \* index of the next variant of the round, 1..4
    last_status,
    delay,
    result,          \* the value returned to the caller
    \* ---- _paginate_conversations locals
    url,
    params,          \* the keys of the params dict
    next_token,
    cursor,
    offset,
    pages,
    total_calls,
    total_credits,
    total_secs,
    tot,             \* the value _paginate_conversations returned
    \* ---- the upstream (environment) and what was observed of the run
    settle,          \* the responses the conversation listing may settle on
    tail,            \* the response it repeats once settled (0: not yet)
    allMore,         \* every page so far reported has_more and a cursor
    roundLog,        \* the requests of the round under way or just ended: variant, status
    primReqs,        \* analytics requests issued so far
    all404,          \* every analytics request so far was answered 404
    sleeps,          \* the delays slept so far, in order
    pageReqs,        \* page requests issued so far
    lastReq,         \* the last page request: url and page_params
    lastResp,        \* the response to it, an index of PagePool, 0 before any
    windowCalls,     \* dict records fetched whose start lies in the window
    \* ---- start_batch_call arguments and locals
    agent_id,
    phone_number_id,
    recipients_json,
    idx,             \* recipients the loop has finished with
    sent,
    failed,
    failures,
    responses_sample,
    call_attempt,    \* _post_outbound_call's attempt for the current recipient
    call_delay,
    batch_result,
    \* ---- what was observed of the dispatch
    outReqs,         \* outbound-call requests issued so far
    curReqs,         \* requests issued for the current recipient
    curAll503,       \* every one of them was answered 503
    lastCall,        \* what the last finished _post_outbound_call returned
    lastOut,         \* the answer to the last request, an index of CallPool, 0 before any
    \* ---- _normalize_conversations_list called on its own
    page,            \* the raw page passed in
    normalized,      \* the contribution it returned
    previous,        \* what the call before it returned for the same page
    \* ---- _verify_hmac called on its own
    secret,
    body,            \* the raw body, a sequence of byte chunks
    sig_header,      \* the header's comma-separated parts, <<>> for None or ""
    accepted,        \* what _verify_hmac returned
    \* ---- the webhook service
    ELEVENLABS_HMAC_SECRET,   \* the environment variables, Unset or a string
    ELEVENLABS_SKIP_HMAC,
    HMAC_SECRET,
    SKIP_HMAC,
    AGENT_ID_TO_FILENAME_CACHE,
    agents_dir,      \* the agents directory as it is on disk now
    last_lookup,     \* the last call of map_agent_id_to_filename on its own
    request,         \* the last request handled: body and signature header
    response,        \* the status code it was answered with
    invoked,         \* process_agent_event was called for it
    \* ---- check_availability called on its own
    date_str,        \* its arguments
    time_str,
    key_file_ok,     \* the service account key can be loaded
    freebusy,        \* what the free/busy query will answer, an index of FreeBusyPool
    time_min,        \* the start of the interval asked for, "" before
    slot_free,       \* what check_availability returned, "unset" before
    \* ---- the agent panel
    panel_request,   \* the request under way: endpoint, tenant config, form
    panel_call,      \* the call of the service function the handler makes
    panel_response,  \* the status answered
    upstream_called, \* the service function has run
    \* ---- the booking flow of process_agent_event and of /agendar_cita
    flow,            \* "processor" or "endpoint"
    cita,            \* fecha and hora of the appointment asked for
    customer_data_raw, \* the other fields the extractor returned
    workflow,        \* the tenant config's workflow list
    twilio_configurado,
    client_email,    \* what send_email_to_client did
    is_available,    \* what check_availability returned, "unset" before
    checks,          \* the slots check_availability was called with
    bookings,        \* the slots book_appointment was called with
    book_args,       \* the client fields it was called with
    book_result,     \* status of book_appointment's result, "none" before
    results,         \* the processor's results dict: key -> status
    step,            \* position in the workflow list
    answer           \* what the flow returned, "pending" before

aggVars  == <<attempt, vidx, last_status, delay, result, roundLog, primReqs, all404, sleeps>>
pageVars == <<url, params, next_token, cursor, offset, pages, total_calls, total_credits,
              total_secs, tot, settle, tail, allMore, pageReqs, lastReq, lastResp, windowCalls>>
envVars  == <<xi_api_key, start_unix_ts, end_unix_ts>>
batchVars == <<agent_id, phone_number_id, recipients_json, idx, sent, failed, failures,
               responses_sample, call_attempt, call_delay, batch_result, outReqs, curReqs,
               curAll503, lastCall, lastOut>>
normVars == <<page, normalized, previous>>
hmacVars == <<secret, body, sig_header, accepted>>
hookVars == <<ELEVENLABS_HMAC_SECRET, ELEVENLABS_SKIP_HMAC, HMAC_SECRET, SKIP_HMAC,
              AGENT_ID_TO_FILENAME_CACHE, agents_dir, last_lookup, request, response, invoked>>
bookVars == <<flow, cita, customer_data_raw, workflow, twilio_configurado, client_email, is_available, checks, bookings, book_args,
              book_result, results, step, answer>>
checkerVars == <<date_str, time_str, key_file_ok, freebusy, time_min, slot_free>>
panelVars == <<panel_request, panel_call, panel_response, upstream_called>>
vars     == <<pc, envVars, aggVars, pageVars, batchVars, normVars, hmacVars, hookVars, bookVars,
              panelVars, checkerVars>>

None == -1

\* ---------------------------------------------------------------- bounds
MaxScript == 2          \* free responses before the listing settles on `tail`
MaxRecipients == 3      \* longest recipient list
MaxItems == 2           \* runs of records in a page normalized on its own
MaxRun == 2             \* copies of a record in such a run
MaxFallbackRate == 200  \* largest credits-per-second rate tried

\* -------------------------------------------------------- program constants
MAX_RETRIES == 3
PageCap == 200          \* while pages < 200
limit == 200
CreditsPerCent == 100   \* 0.01 / USD_PER_CREDIT, USD_PER_CREDIT = 0.0001
InitialDelay == 100     \* delay = 1.0

\* a backoff that doubles the delay
RetryBackoffDouble(d) == 2 * d

\* RETRY_BACKOFF = 1.5
RetryBackoff(d) == (d * 3) \div 2

\* a retry rule that takes every 4xx for transient as well
RetryableAnyError(status) == 400 <= status /\ status < 600

_retryable(status) == status = 429 \/ (500 <= status /\ status < 600)

\* the success test with 200 itself left out
Is2xxAbove(status) == 200 < status /\ status < 300

Is2xx(status) == 200 <= status /\ status < 300

\* ------------------------------------------------------------ normalizers
Empty == [k \in {} |-> 0]

\* a conversation record: a dict with top-level keys and optional nested
\* usage / billing / pricing dicts (Empty when absent or not a dict; a key
\* whose value is None is modelled as an absent key)
Rec(top, usage, billing, pricing) ==
    [isdict |-> TRUE, top |-> top, usage |-> usage, billing |-> billing, pricing |-> pricing]

NotADict == [isdict |-> FALSE, top |-> Empty, usage |-> Empty, billing |-> Empty, pricing |-> Empty]

RECURSIVE FindFirstFrom(_, _, _)
FindFirstFrom(obj, keys, i) ==
    IF i > Len(keys) THEN None
    ELSE IF keys[i] \in DOMAIN obj THEN obj[keys[i]]
    ELSE FindFirstFrom(obj, keys, i + 1)

_find_first_numeric_by_keys(obj, keys) == FindFirstFrom(obj, keys, 1)

\* the keys of the modelled records that contain the needle as a substring
KeysContaining(needle) ==
    IF needle = "credit"
    THEN {"credits", "credits_consumed", "billable_credits", "usage_credits",
          "cost_credits", "total_credits", "llm_credits"}
    ELSE IF needle = "usd"
    THEN {"usd_spent", "cost_usd", "total_cost_usd", "usd", "total_usd", "price_usd"}
    ELSE {}

\* the first matching key in dict order; the modelled records hold at most one
_find_numeric_contains(obj, needle) ==
    LET hits == DOMAIN obj \cap KeysContaining(needle)
    IN  IF hits = {} THEN None ELSE obj[CHOOSE k \in hits : TRUE]

\* Python's `a or b` on Optional[float]: None and 0.0 are falsy
OrElse(a, b) == IF a # None /\ a # 0 THEN a ELSE b

\* c.get(k1) or c.get(k2) or ...: the first truthy value, else the last one
RECURSIVE GetOrChain(_, _, _)
GetOrChain(obj, keys, i) ==
    LET v == IF keys[i] \in DOMAIN obj THEN obj[keys[i]] ELSE None
    IN  IF i = Len(keys) THEN v
        ELSE IF v # None /\ v # 0 THEN v
        ELSE GetOrChain(obj, keys, i + 1)

CR_CANDIDATES == <<"credits", "credits_consumed", "billable_credits", "usage_credits",
                   "cost_credits", "total_credits">>
DUR_CANDIDATES == <<"duration_secs", "duration_seconds", "call_duration_seconds", "seconds",
                    "total_duration_seconds">>
START_KEYS == <<"call_start_unix", "start_unix", "started_at_unix", "start_time_unix">>
END_KEYS == <<"call_end_unix", "end_unix", "ended_at_unix", "end_time_unix">>

\* the USD figure of a record, lines 206-216
RecordUsd(c) ==
    LET u0 == OrElse(None, _find_first_numeric_by_keys(c.top, <<"usd_spent", "cost_usd", "total_cost_usd">>))
        u1 == IF DOMAIN c.usage = {} THEN u0
              ELSE OrElse(u0, _find_first_numeric_by_keys(c.usage, <<"usd", "cost_usd">>))
        u2 == IF DOMAIN c.billing = {} THEN u1
              ELSE OrElse(u1, _find_first_numeric_by_keys(c.billing, <<"usd", "total_usd", "cost_usd">>))
        u3 == IF DOMAIN c.pricing = {} THEN u2
              ELSE OrElse(u2, _find_first_numeric_by_keys(c.pricing, <<"usd">>))
    IN  IF u3 = None THEN _find_numeric_contains(c.top, "usd") ELSE u3

\* the credits one record adds, lines 184-220 (_safe_float(None, 0.0) = 0.0)
RecordCredits(c) ==
    LET c0 == _find_first_numeric_by_keys(c.top, CR_CANDIDATES)
        c1 == IF c0 = None THEN _find_first_numeric_by_keys(c.usage, <<"credits">>) ELSE c0
        c2 == IF c1 = None THEN _find_first_numeric_by_keys(c.billing, <<"credits">>) ELSE c1
        c3 == IF c2 = None THEN _find_first_numeric_by_keys(c.pricing, <<"credits">>) ELSE c2
        c4 == IF c3 = None THEN _find_numeric_contains(c.top, "credit") ELSE c3
        usd == RecordUsd(c)
        c5 == IF c4 = None /\ usd # None THEN usd * CreditsPerCent ELSE c4
    IN  IF c5 = None THEN 0 ELSE c5

\* the duration one record adds, in milliseconds, lines 222-246
RecordDuration(c) ==
    LET d0 == _find_first_numeric_by_keys(c.top, DUR_CANDIDATES)
        d1 == IF d0 = None
              THEN (IF "duration_ms" \in DOMAIN c.top THEN c.top["duration_ms"] ELSE None)
              ELSE d0 * 1000
        start_ts == GetOrChain(c.top, START_KEYS, 1)
        end_ts == GetOrChain(c.top, END_KEYS, 1)
        truthy(v) == v # None /\ v # 0
    IN  IF d1 # None THEN d1
        ELSE IF truthy(start_ts) /\ truthy(end_ts)
             THEN (IF end_ts > start_ts THEN (end_ts - start_ts) * 1000 ELSE 0)
             ELSE 0

\* the list of conversations of a payload, whatever its key
ListKeys == {"data", "conversations", "items", "results"}

_extract_items(payload) ==
    IF payload.kind = "dict"
    THEN (IF payload.listkey \in ListKeys THEN payload.items ELSE <<>>)
    ELSE IF payload.kind = "list" THEN payload.items
    ELSE <<>>

\* a page's item list is stored run-length encoded: <<[rec, n], ...>> stands
\* for n copies of rec, then the next run
RECURSIVE ItemCount(_)
ItemCount(items) ==
    IF items = <<>> THEN 0 ELSE Head(items).n + ItemCount(Tail(items))

RECURSIVE SumSeq(_)
SumSeq(s) == IF s = <<>> THEN 0 ELSE Head(s) + SumSeq(Tail(s))

\* the loop of lines 179-246 over the runs: items that are no dict are skipped
CallsOf(items) ==
    SumSeq([i \in 1..Len(items) |-> IF items[i].rec.isdict THEN items[i].n ELSE 0])

CreditsOf(items) ==
    SumSeq([i \in 1..Len(items) |->
              IF items[i].rec.isdict THEN items[i].n * RecordCredits(items[i].rec) ELSE 0])

DurationOf(items) ==
    SumSeq([i \in 1..Len(items) |->
              IF items[i].rec.isdict THEN items[i].n * RecordDuration(items[i].rec) ELSE 0])

_normalize_conversations_list(payload) ==
    LET items == _extract_items(payload)
    IN  [calls |-> CallsOf(items),
         credits |-> CreditsOf(items),
         duration_secs |-> DurationOf(items)]

\* ------------------------------------------------- the upstream's records
T0 == 100               \* the start boundary of the modelled windows

rInWindow == Rec([credits |-> 5, duration_secs |-> 10, call_start_unix |-> T0], Empty, Empty, Empty)
rOld      == Rec([credits_consumed |-> 2, seconds |-> 4, start_unix |-> T0 - 50], Empty, Empty, Empty)
rLate     == Rec([total_credits |-> 3, duration_ms |-> 1500, started_at_unix |-> T0 + 1], Empty, Empty, Empty)
rNoCred   == Rec([duration_secs |-> 7, call_start_unix |-> T0], Empty, Empty, Empty)
rUsd      == Rec([duration_ms |-> 2500, call_start_unix |-> T0], Empty, [total_usd |-> 3], Empty)
rNoStart  == Rec([llm_credits |-> 1, call_end_unix |-> T0 + 9], Empty, Empty, Empty)
rNested   == Rec([call_start_unix |-> T0, call_end_unix |-> T0 + 60], [credits |-> 4], Empty, Empty)

\* records that carry the platform's success indicator, a string-valued key
\* kept apart from the numeric ones; lines 176-246 read no such key
rFailed    == Rec([credits |-> 5, duration_secs |-> 10, call_start_unix |-> T0], Empty, Empty, Empty)
                 @@ [call_successful |-> "failure"]
rSucceeded == Rec([credits |-> 1, duration_secs |-> 3, call_start_unix |-> T0], Empty, Empty, Empty)
                 @@ [call_successful |-> "success"]

Run(rec, n) == [rec |-> rec, n |-> n]

\* a response of _http to a page request: (status, data, err)
Body(kind, listkey, items, next, npt, nextToken, pageToken, next_cursor, cur, has_more) ==
    [kind |-> kind, listkey |-> listkey, items |-> items, next |-> next,
     next_page_token |-> npt, nextToken |-> nextToken, pageToken |-> pageToken,
     next_cursor |-> next_cursor, cursor |-> cur, has_more |-> has_more]

TextBody == Body("text", "", <<>>, "", "", "", "", "", "", FALSE)

Resp(status, err, data) == [status |-> status, err |-> err, data |-> data]

PagePool == <<
    Resp(0, TRUE, TextBody),
    Resp(500, FALSE, TextBody),
    Resp(200, FALSE, Body("dict", "conversations", <<Run(rInWindow, 1), Run(rOld, 1)>>,
                          "", "", "", "", "", "", FALSE)),
    Resp(200, FALSE, Body("dict", "conversations", <<Run(rNoCred, 1)>>,
                          "", "", "", "", "c1", "", TRUE)),
    Resp(200, FALSE, Body("dict", "data", <<Run(rUsd, 1), Run(rLate, 1)>>,
                          "https://api.elevenlabs.io/v1/convai/conversations?page=2",
                          "", "", "", "", "", FALSE)),
    Resp(200, FALSE, Body("dict", "items", <<Run(rNested, 1), Run(NotADict, 1)>>,
                          "", "", "tok", "", "", "", FALSE)),
    Resp(200, FALSE, Body("list", "", <<Run(rInWindow, limit)>>,
                          "", "", "", "", "", "", FALSE)),
    Resp(201, FALSE, Body("dict", "results", <<Run(rNoStart, 2)>>,
                          "", "", "", "", "", "", TRUE)),
    Resp(200, FALSE, TextBody) >>

\* the responses a listing may repeat for ever: a transport error, a last
\* page, "has_more with a cursor", "has_more" alone
TailPool == {1, 3, 4, 8}

\* Python's `a or b` on Optional[str]: None and "" are falsy ("" models both)
StrOr(a, b) == IF a # "" THEN a ELSE b

\* the listing answers its first MaxScript requests freely, then settles on
\* one response of `settle` and repeats it
Choices ==
    IF pageReqs < MaxScript THEN 1..Len(PagePool)
    ELSE IF tail = 0 THEN settle
    ELSE {tail}

ReportsMore(r) ==
    ~r.err /\ Is2xx(r.status) /\ r.data.kind = "dict" /\ r.data.has_more
    /\ StrOr(r.data.next_cursor, r.data.cursor) # ""

RecordStart(c) == _find_first_numeric_by_keys(c.top, START_KEYS)

\* the dict records of a page whose start timestamp is present and >= start
InWindow(items, start) ==
    SumSeq([i \in 1..Len(items) |->
              IF items[i].rec.isdict /\ RecordStart(items[i].rec) # None
                 /\ RecordStart(items[i].rec) >= start
              THEN items[i].n ELSE 0])

\* ---------------------------------------------- _paginate_conversations
BaseUrl == "https://api.elevenlabs.io/v1/convai/conversations"

BaseParams == {"agent_id", "call_start_after_unix", "call_start_before_unix",
               "start_unix", "end_unix", "limit"}

\* lines 295-302: the params of one page request
PageParams ==
    params \cup (IF next_token # "" THEN {"page_token", "next_page_token"} ELSE {})
           \cup (IF cursor # "" THEN {"cursor"} ELSE {})
           \cup (IF offset # 0 THEN {"offset"} ELSE {})

\* lines 272-292: the locals at the first loop test
PaginateEntry ==
    /\ url = BaseUrl
    /\ params = BaseParams
    /\ next_token = ""
    /\ cursor = ""
    /\ offset = 0
    /\ pages = 0
    /\ total_calls = 0
    /\ total_credits = 0
    /\ total_secs = 0

\* the return value that counts the request that failed as a page
PaginateTotalsCountingLast(calls, credits, secs, n) ==
    [calls |-> calls, credits |-> credits, duration_secs |-> secs, pages |-> n + 1]

PaginateTotals(calls, credits, secs, n) ==
    [calls |-> calls, credits |-> credits, duration_secs |-> secs, pages |-> n]

NoTot == PaginateTotals(None, None, None, None)

NoReq == [url |-> "", keys |-> {}, cursor |-> "", token |-> "", offset |-> 0]

\* the way on that overlooks a full page
NextPageModeNoFull(data) ==
    LET isd == data.kind = "dict"
    IN  IF isd /\ data.next # "" THEN "next_url"
        ELSE IF isd /\ StrOr(data.next_cursor, data.cursor) # "" THEN "cursor"
        ELSE IF isd /\ StrOr(data.next_page_token, StrOr(data.nextToken, data.pageToken)) # ""
             THEN "token"
        ELSE IF isd /\ data.has_more THEN "offset"
        ELSE "stop"

\* which way the loop goes on after a fetched page, lines 335-353
NextPageMode(data) ==
    LET isd == data.kind = "dict"
        nurl == IF isd THEN data.next ELSE ""
        ntok == IF isd THEN StrOr(data.next_page_token, StrOr(data.nextToken, data.pageToken)) ELSE ""
        ncur == IF isd THEN StrOr(data.next_cursor, data.cursor) ELSE ""
        more == isd /\ data.has_more
        filled_page == ItemCount(_extract_items(data)) >= limit
    IN  IF nurl # "" THEN "next_url"
        ELSE IF ncur # "" THEN "cursor"
        ELSE IF ntok # "" THEN "token"
        ELSE IF more \/ filled_page THEN "offset"
        ELSE "stop"

\* the loop with its cap off by one
LoopTestOneMore(p) == p <= PageCap

\* while pages < 200
LoopTest(p) == p < PageCap

\* one iteration of the while loop, lines 294-353, and with the iteration
\* that leaves the loop the return of line 355
PageRequest ==
    /\ pc = "paginate"
    /\ LoopTest(pages)
    /\ settle' = settle
    /\ IF ~xi_api_key
       THEN \* _auth_headers raises RuntimeError, which _http does not catch
            /\ pc' = "raised"
            /\ UNCHANGED <<url, params, next_token, cursor, offset, pages, total_calls,
                           total_credits, total_secs, tot, windowCalls, tail, allMore,
                           pageReqs, lastReq, lastResp>>
       ELSE \E i \in Choices :
            LET r == PagePool[i]
                data == r.data
                norm == _normalize_conversations_list(data)
                mode == NextPageMode(data)
            IN  /\ tail' = IF pageReqs >= MaxScript THEN i ELSE tail
                /\ allMore' = (allMore /\ ReportsMore(r))
                /\ pageReqs' = pageReqs + 1
                /\ lastResp' = i
                /\ lastReq' = [url |-> url, keys |-> PageParams, cursor |-> cursor,
                               token |-> next_token, offset |-> offset]
                /\ IF r.err \/ ~Is2xx(r.status)
                   THEN /\ pc' = "paginated"
                        /\ tot' = PaginateTotals(total_calls, total_credits, total_secs, pages)
                        /\ UNCHANGED <<url, params, next_token, cursor, offset, pages,
                                       total_calls, total_credits, total_secs, windowCalls>>
                   ELSE /\ total_calls' = total_calls + norm.calls
                        /\ total_credits' = total_credits + norm.credits
                        /\ total_secs' = total_secs + norm.duration_secs
                        /\ pages' = pages + 1
                        /\ windowCalls' = windowCalls + InWindow(_extract_items(data), start_unix_ts)
                        /\ next_token' = IF data.kind = "dict"
                                         THEN StrOr(data.next_page_token, StrOr(data.nextToken, data.pageToken))
                                         ELSE ""
                        /\ cursor' = IF data.kind = "dict" THEN StrOr(data.next_cursor, data.cursor) ELSE ""
                        /\ url' = IF mode = "next_url" THEN data.next
                                  ELSE IF mode = "stop" THEN url ELSE BaseUrl
                        /\ params' = IF mode = "next_url" THEN {} ELSE params
                        /\ offset' = IF mode \in {"next_url", "cursor", "token"} THEN 0
                                     ELSE IF mode = "offset" THEN offset + limit ELSE offset
                        /\ IF mode # "stop" /\ LoopTest(pages')
                           THEN pc' = "paginate" /\ tot' = tot
                           ELSE /\ pc' = "paginated"
                                /\ tot' = PaginateTotals(total_calls', total_credits', total_secs', pages')
    /\ UNCHANGED <<envVars, panelVars, checkerVars, bookVars, aggVars, batchVars, normVars, hmacVars, hookVars>>

\* ------------------------------------------------------ _normalize_metrics
Metrics(calls, credits, secs) == [calls |-> calls, credits |-> credits, duration_secs |-> secs]

NoResult == [ok |-> FALSE, data |-> Metrics(None, None, None)]

\* an analytics payload: None, text, a list of bucket rows, or a dict that may
\* hold a nested payload under "data" or "analytics" (inner: <<>> or <<payload>>)
Payload(kind, d, rows, innerkey, inner) ==
    [kind |-> kind, d |-> d, rows |-> rows, innerkey |-> innerkey, inner |-> inner]

Truthy(v) == v # None /\ v # 0

\* row.get(k1) or row.get(k2) or ... or 0
RowGet(row, keys) ==
    LET v == GetOrChain(row, keys, 1) IN IF Truthy(v) THEN v ELSE 0

\* d.get(k1, d.get(k2, d.get(k3, default)))
DictGet(d, keys) ==
    LET v == _find_first_numeric_by_keys(d, keys) IN IF v = None THEN 0 ELSE v

RECURSIVE _normalize_metrics(_)
_normalize_metrics(payload) ==
    IF payload.kind = "none" THEN Metrics(0, 0, 0)
    ELSE IF payload.kind = "list"
    THEN Metrics(
           SumSeq([i \in 1..Len(payload.rows) |-> RowGet(payload.rows[i], <<"calls", "total_calls">>)]),
           SumSeq([i \in 1..Len(payload.rows) |->
                     RowGet(payload.rows[i], <<"credits", "credits_consumed", "total_credits">>)]),
           SumSeq([i \in 1..Len(payload.rows) |->
                     1000 * RowGet(payload.rows[i], <<"duration_secs", "total_duration_secs", "seconds">>)]))
    ELSE IF payload.kind # "dict" THEN Metrics(0, 0, 0)
    ELSE IF payload.innerkey = "data" /\ payload.inner[1].kind \in {"dict", "list"}
    THEN _normalize_metrics(payload.inner[1])
    ELSE IF payload.innerkey = "analytics" /\ payload.inner[1].kind \in {"dict", "list"}
    THEN _normalize_metrics(payload.inner[1])
    ELSE Metrics(DictGet(payload.d, <<"calls", "total_calls", "outbound_calls">>),
                 DictGet(payload.d, <<"credits", "total_credits", "credits_consumed">>),
                 1000 * DictGet(payload.d, <<"duration_secs", "total_duration_secs", "seconds">>))

NonePayload == Payload("none", Empty, <<>>, "", <<>>)

AnalyticsPool == <<
    Resp(0, TRUE, NonePayload),
    Resp(404, FALSE, Payload("dict", Empty, <<>>, "", <<>>)),
    Resp(503, FALSE, Payload("text", Empty, <<>>, "", <<>>)),
    Resp(200, FALSE, Payload("dict", [total_calls |-> 3, credits |-> 12, seconds |-> 40], <<>>, "", <<>>)),
    Resp(200, FALSE, Payload("dict", [calls |-> 9], <<>>, "data",
                             <<Payload("list", Empty,
                                       <<[calls |-> 0, total_calls |-> 2, credits |-> 5],
                                         [calls |-> 1, duration_secs |-> 6]>>, "", <<>>)>>)) >>

\* ---------------------------------------------- get_agent_consumption_data
\* the four endpoint variants of a round, lines 364-369
Variants == <<"POST snake", "POST camel", "GET snake", "GET camel">>

\* a round abandoned on 410 only, so that a 404 round is retried
AbandonPrimaryOnGone(status) == status = 410

\* line 383: the round that just ended lets the primary step be abandoned
AbandonPrimary(status) == status = 404

\* one _try_metrics_variant call of the double loop, lines 375-387; with the
\* last variant of a round also the round's end, and with the last round (or
\* the 404 exit) the call of _paginate_conversations
TryVariant ==
    /\ pc = "primary"
    /\ IF ~xi_api_key
       THEN \* _auth_headers raises RuntimeError, which _http does not catch
            /\ pc' = "raised"
            /\ UNCHANGED <<aggVars>>
       ELSE \E i \in 1..Len(AnalyticsPool) :
            LET r == AnalyticsPool[i]
                ok == ~r.err /\ Is2xx(r.status)
                log == IF vidx = 1 THEN <<>> ELSE roundLog
            IN  /\ primReqs' = primReqs + 1
                /\ roundLog' = Append(log, [variant |-> Variants[vidx], status |-> r.status])
                /\ all404' = (all404 /\ r.status = 404)
                /\ last_status' = r.status
                /\ IF ok
                   THEN /\ result' = [ok |-> TRUE, data |-> _normalize_metrics(r.data)]
                        /\ pc' = "done"
                        /\ UNCHANGED <<attempt, vidx, delay, sleeps>>
                   ELSE IF vidx < Len(Variants)
                   THEN /\ vidx' = vidx + 1
                        /\ pc' = "primary"
                        /\ UNCHANGED <<attempt, delay, sleeps, result>>
                   ELSE IF AbandonPrimary(last_status') \/ attempt >= MAX_RETRIES
                   THEN /\ pc' = "paginate"
                        /\ UNCHANGED <<attempt, vidx, delay, sleeps, result>>
                   ELSE /\ sleeps' = Append(sleeps, delay)
                        /\ delay' = RetryBackoff(delay)
                        /\ attempt' = attempt + 1
                        /\ vidx' = 1
                        /\ pc' = "primary"
                        /\ UNCHANGED result
    /\ UNCHANGED <<envVars, panelVars, checkerVars, bookVars, pageVars, batchVars, normVars, hmacVars, hookVars>>

\* lines 390-391: the fallback's totals become the result
FallbackReturn ==
    /\ pc = "paginated"
    /\ result' = [ok |-> TRUE, data |-> Metrics(tot.calls, tot.credits, tot.duration_secs)]
    /\ pc' = "done"
    /\ UNCHANGED <<envVars, panelVars, checkerVars, bookVars, pageVars, batchVars, normVars, hmacVars, hookVars, attempt, vidx, last_status, delay, roundLog,
                   primReqs, all404, sleeps>>

\* ------------------------------------------------------- start_batch_call
\* a recipient's phone_number: a string, or absent, or None
Absent == "<absent>"
PyNone == "<None>"
PhoneValues == {Absent, PyNone, "", "  ", "+15550001", " +15550002 "}

\* str.strip on the modelled strings
Strip(str) ==
    IF str = "  " THEN ""
    ELSE IF str = " +15550002 " THEN "+15550002"
    ELSE str

\* the number taken without .strip()
ToNumberNoStrip(r) ==
    IF r.phone_number = Absent THEN ""
    ELSE IF r.phone_number = PyNone THEN "None"
    ELSE r.phone_number

\* line 469: str(r.get("phone_number", "")).strip()
ToNumber(r) ==
    IF r.phone_number = Absent THEN Strip("")
    ELSE IF r.phone_number = PyNone THEN Strip("None")
    ELSE Strip(r.phone_number)

\* the outbound-call endpoint's answers: transport error, 200, 400, 429, 503
CallPool == <<Resp(0, TRUE, "none"), Resp(200, FALSE, "dict"), Resp(400, FALSE, "dict"),
              Resp(429, FALSE, "text"), Resp(503, FALSE, "text")>>

CallReturn(ok, err, status) == [ok |-> ok, err |-> err, status |-> status]

NoCall == [ok |-> FALSE, err |-> "", status |-> None, reqs |-> 0, all503 |-> FALSE, row |-> 0]

NoBatchResult == [ok |-> FALSE, error |-> "", total |-> None, sent |-> None, failed |-> None,
                  failures |-> <<>>]

BatchEntry ==
    /\ idx = 0
    /\ sent = 0
    /\ failed = 0
    /\ failures = <<>>
    /\ responses_sample = <<>>
    /\ call_attempt = 1
    /\ call_delay = InitialDelay
    /\ batch_result = NoBatchResult
    /\ outReqs = 0
    /\ curReqs = 0
    /\ curAll503 = TRUE
    /\ lastCall = NoCall
    /\ lastOut = 0

\* line 461: total = len(recipients_json)
total == Len(recipients_json)

\* lines 456-459; recipients_json is a list of rows, or NotAList, which
\* stands for any value that is no list
NotAList == <<[phone_number |-> "<not a list>"]>>

StartBatchCall ==
    /\ pc = "batch_start"
    /\ IF recipients_json = NotAList
       THEN /\ batch_result' = [NoBatchResult EXCEPT !.error = "recipients_json debe ser lista"]
            /\ pc' = "batch_done"
       ELSE IF agent_id = "" \/ phone_number_id = ""
       THEN /\ batch_result' = [NoBatchResult EXCEPT !.error = "Faltan agent_id o phone_number_id"]
            /\ pc' = "batch_done"
       ELSE /\ pc' = "batch_loop"
            /\ UNCHANGED batch_result
    /\ UNCHANGED <<envVars, panelVars, checkerVars, bookVars, aggVars, pageVars, normVars, hmacVars, hookVars, agent_id, phone_number_id, recipients_json, idx,
                   sent, failed, failures, responses_sample, call_attempt, call_delay, outReqs,
                   curReqs, curAll503, lastCall, lastOut>>

\* a failed recipient that is not counted
CountFailedNot(n) == n

\* failed += 1, lines 471 and 482
CountFailed(n) == n + 1

\* line 470: the row has no number to dial
NoNumber(to) == to = ""

\* lines 468-473: a recipient without a number is counted as failed
SkipRecipient ==
    /\ pc = "batch_loop"
    /\ idx < Len(recipients_json)
    /\ NoNumber(ToNumber(recipients_json[idx + 1]))
    /\ failed' = CountFailed(failed)
    /\ failures' = Append(failures, [phone_number |-> "", error |-> "Fila sin phone_number",
                                     status |-> 0, row |-> idx + 1])
    /\ idx' = idx + 1
    /\ UNCHANGED <<pc, envVars, panelVars, checkerVars, bookVars, aggVars, pageVars, normVars, hmacVars, hookVars, agent_id, phone_number_id, recipients_json,
                   sent, responses_sample, call_attempt, call_delay, batch_result, outReqs,
                   curReqs, curAll503, lastCall, lastOut>>

\* a retry loop that gives up one attempt early
LastAttemptEarly(a) == a >= MAX_RETRIES - 1

\* the attempt after which _post_outbound_call gives up, lines 432 and 440
LastAttempt(a) == a >= MAX_RETRIES

\* lines 475-484 and 429-445: one request of _post_outbound_call for the
\* current recipient; when the call returns, the recipient is counted
PostOutboundCall ==
    /\ pc = "batch_loop"
    /\ idx < Len(recipients_json)
    /\ ~NoNumber(ToNumber(recipients_json[idx + 1]))
    /\ IF ~xi_api_key
       THEN \* _auth_headers raises RuntimeError, which _http does not catch
            /\ pc' = "raised"
            /\ UNCHANGED <<idx, sent, failed, failures, responses_sample, call_attempt,
                           call_delay, outReqs, curReqs, curAll503, lastCall, lastOut>>
       ELSE \E i \in 1..Len(CallPool) :
            LET r == CallPool[i]
                to == ToNumber(recipients_json[idx + 1])
                ok == ~r.err /\ Is2xx(r.status)
                again == (r.err \/ _retryable(r.status)) /\ ~LastAttempt(call_attempt)
                ret == IF r.err THEN CallReturn(FALSE, "HTTP error", 0)
                       ELSE IF ok THEN CallReturn(TRUE, "", r.status)
                       ELSE CallReturn(FALSE, "ElevenLabs error", r.status)
            IN  /\ outReqs' = outReqs + 1
                /\ lastOut' = i
                /\ pc' = pc
                /\ IF ~ok /\ again
                   THEN /\ call_attempt' = call_attempt + 1
                        /\ call_delay' = RetryBackoff(call_delay)
                        /\ curReqs' = curReqs + 1
                        /\ curAll503' = (curAll503 /\ r.status = 503)
                        /\ UNCHANGED <<idx, sent, failed, failures, responses_sample, lastCall>>
                   ELSE /\ lastCall' = [ok |-> ret.ok, err |-> ret.err, status |-> ret.status,
                                        reqs |-> curReqs + 1,
                                        all503 |-> curAll503 /\ r.status = 503,
                                        row |-> idx + 1]
                        /\ call_attempt' = 1
                        /\ call_delay' = InitialDelay
                        /\ curReqs' = 0
                        /\ curAll503' = TRUE
                        /\ idx' = idx + 1
                        /\ IF ok
                           THEN /\ sent' = sent + 1
                                /\ responses_sample' =
                                     IF Len(responses_sample) < 3
                                     THEN Append(responses_sample, [phone_number |-> to])
                                     ELSE responses_sample
                                /\ UNCHANGED <<failed, failures>>
                           ELSE /\ failed' = CountFailed(failed)
                                /\ failures' = Append(failures,
                                                      [phone_number |-> to, error |-> ret.err,
                                                       status |-> ret.status, row |-> idx + 1])
                                /\ UNCHANGED <<sent, responses_sample>>
    /\ UNCHANGED <<envVars, panelVars, checkerVars, bookVars, aggVars, pageVars, normVars, hmacVars, hookVars, agent_id, phone_number_id, recipients_json,
                   batch_result>>

\* the return after the loop: {ok, total, sent, failed, failures}
BatchReturn ==
    /\ pc = "batch_loop"
    /\ idx = Len(recipients_json)
    /\ batch_result' = [ok |-> TRUE, error |-> "", total |-> Len(recipients_json),
                        sent |-> sent, failed |-> failed, failures |-> failures]
    /\ pc' = "batch_done"
    /\ UNCHANGED <<envVars, panelVars, checkerVars, bookVars, aggVars, pageVars, normVars, hmacVars, hookVars, agent_id, phone_number_id, recipients_json, idx,
                   sent, failed, failures, responses_sample, call_attempt, call_delay, outReqs,
                   curReqs, curAll503, lastCall, lastOut>>

\* ------------------------------------------------------------ _verify_hmac
\* HMAC-SHA256 as an ideal MAC: the digest names its key and its message, so
\* two digests are equal only for the same key and the same message
Hmac(key, msg) == [key |-> key, msg |-> msg]

\* the empty string where a hex digest is expected
EmptyDigest == [key |-> "<no key>", msg |-> <<"<empty string>">>]

InvalidByte == "\\xff"

\* body.decode("utf-8", errors="ignore") and .encode(): undecodable bytes go
Utf8Ignore(bytes) == SelectSeq(bytes, LAMBDA b : b # InvalidByte)

\* a part of the header: "t=<t>", "v0=<d>" or "v1=<d>", padded with blanks or
\* not (the padding is what x.strip() removes)
Part(key, t, d, pad) == [key |-> key, t |-> t, d |-> d, pad |-> pad]

\* lines 204-207: the last t= part and the last v0= part win
RECURSIVE ParseSig(_, _, _, _)
ParseSig(parts, i, t, v0) ==
    IF i > Len(parts) THEN [t |-> t, v0 |-> v0]
    ELSE ParseSig(parts, i + 1,
                  IF parts[i].key = "t" THEN parts[i].t ELSE t,
                  IF parts[i].key = "v0" THEN parts[i].d ELSE v0)

\* the three messages whose digest is accepted, lines 212-217
ExpectedDigests(sec, bytes, t) ==
    {Hmac(sec, bytes),
     Hmac(sec, t \o <<".">> \o Utf8Ignore(bytes)),
     Hmac(sec, t \o Utf8Ignore(bytes))}

_verify_hmac(sec, bytes, header) ==
    IF header = <<>> THEN FALSE
    ELSE LET p == ParseSig(header, 1, <<>>, EmptyDigest)
         IN  IF p.v0 = EmptyDigest THEN FALSE
             ELSE p.v0 \in ExpectedDigests(sec, bytes, p.t)

VerifyHmac ==
    /\ pc = "verify"
    /\ accepted' = _verify_hmac(secret, body, sig_header)
    /\ pc' = "verified"
    /\ UNCHANGED <<envVars, panelVars, checkerVars, bookVars, aggVars, pageVars, batchVars, normVars, hookVars, secret, body,
                   sig_header>>

HmacIdle ==
    /\ secret = ""
    /\ body = <<>>
    /\ sig_header = <<>>
    /\ accepted = FALSE

\* -------------------------------------------------------- the webhook
\* the agents directory in os.listdir order: file name and the
\* elevenlabs_agent_id its JSON holds
ConfigFile(filename, stem, is_json, underscore, id) ==
    [filename |-> filename, stem |-> stem, is_json |-> is_json, underscore |-> underscore,
     elevenlabs_agent_id |-> id]

BOT_CONFIG_DIR == <<
    ConfigFile("_plantilla.json", "_plantilla", TRUE, TRUE, "agent_3"),
    ConfigFile("sundin.json", "sundin", TRUE, FALSE, "agent_1"),
    ConfigFile("notas.txt", "notas.txt", FALSE, FALSE, "agent_4"),
    ConfigFile("demo.json", "demo", TRUE, FALSE, "agent_2") >>

NoFile == ""

\* a config file that json.load cannot read holds this in place of an id
InvalidJson == "<invalid json>"

\* lines 122-140 over a directory listing: the first listed config file that
\* holds the agent id; a file that cannot be read raises, and the except of
\* line 142 makes that None
RECURSIVE ScanFiles(_, _, _)
ScanFiles(dir, id, i) ==
    IF i > Len(dir) THEN NoFile
    ELSE IF ~dir[i].is_json \/ dir[i].underscore THEN ScanFiles(dir, id, i + 1)
    ELSE IF dir[i].elevenlabs_agent_id = InvalidJson THEN NoFile
    ELSE IF dir[i].elevenlabs_agent_id = id THEN dir[i].filename
    ELSE ScanFiles(dir, id, i + 1)

\* lines 122-140: the first listed config file that holds the agent id
ScanDir(id, i) == ScanFiles(BOT_CONFIG_DIR, id, i)

\* a lookup that reads the directory even when the id is in the cache
LookupUncached(dir, cache, id) ==
    LET f == ScanFiles(dir, id, 1)
    IN  IF f = NoFile THEN [filename |-> NoFile, cache |-> cache, scanned |-> TRUE]
        ELSE [filename |-> f, scanned |-> TRUE,
              cache |-> [k \in DOMAIN cache \cup {id} |-> IF k = id THEN f ELSE cache[k]]]

\* lines 104-144 against a directory: the file name returned, the cache
\* afterwards and whether the directory was read
Lookup(dir, cache, id) ==
    IF id \in DOMAIN cache THEN [filename |-> cache[id], cache |-> cache, scanned |-> FALSE]
    ELSE LET f == ScanFiles(dir, id, 1)
         IN  IF f = NoFile THEN [filename |-> NoFile, cache |-> cache, scanned |-> TRUE]
             ELSE [filename |-> f, scanned |-> TRUE,
                   cache |-> [k \in DOMAIN cache \cup {id} |-> IF k = id THEN f ELSE cache[k]]]

\* map_agent_id_to_filename: the file name returned and the cache afterwards
map_agent_id_to_filename(cache, id) ==
    LET found == Lookup(BOT_CONFIG_DIR, cache, id)
    IN  [filename |-> found.filename, cache |-> found.cache]

NoLookup == [agent_id |-> "", filename |-> NoFile, scanned |-> FALSE]

\* the agents directory after an edit: as deployed, a tenant's file renamed,
\* a tenant's id moved to another file, a file made unreadable, all removed
AgentDirs == {
    BOT_CONFIG_DIR,
    << ConfigFile("sundin_v2.json", "sundin_v2", TRUE, FALSE, "agent_1"),
       ConfigFile("demo.json", "demo", TRUE, FALSE, "agent_2") >>,
    << ConfigFile("sundin.json", "sundin", TRUE, FALSE, "agent_2"),
       ConfigFile("demo.json", "demo", TRUE, FALSE, "agent_1") >>,
    << ConfigFile("roto.json", "roto", TRUE, FALSE, InvalidJson),
       ConfigFile("sundin.json", "sundin", TRUE, FALSE, "agent_1") >>,
    << >> }

LookupIds == {"agent_1", "agent_2", "agent_9"}

\* map_agent_id_to_filename called by a request handler
LookupAgent ==
    /\ pc = "lookups"
    /\ \E id \in LookupIds :
          LET found == Lookup(agents_dir, AGENT_ID_TO_FILENAME_CACHE, id)
          IN  /\ AGENT_ID_TO_FILENAME_CACHE' = found.cache
              /\ last_lookup' = [agent_id |-> id, filename |-> found.filename,
                                 scanned |-> found.scanned]
    /\ UNCHANGED <<pc, envVars, panelVars, checkerVars, bookVars, aggVars, pageVars, batchVars, normVars, hmacVars,
                   ELEVENLABS_HMAC_SECRET, ELEVENLABS_SKIP_HMAC, HMAC_SECRET, SKIP_HMAC,
                   agents_dir, request, response, invoked>>

\* the config files are edited while the process runs
EditConfigs ==
    /\ pc = "lookups"
    /\ agents_dir' \in AgentDirs \ {agents_dir}
    /\ UNCHANGED <<pc, envVars, panelVars, checkerVars, bookVars, aggVars, pageVars, batchVars, normVars, hmacVars,
                   ELEVENLABS_HMAC_SECRET, ELEVENLABS_SKIP_HMAC, HMAC_SECRET, SKIP_HMAC,
                   AGENT_ID_TO_FILENAME_CACHE, last_lookup, request, response, invoked>>

\* the signature headers of the modelled requests to a body: none, the
\* platform's signature over "t.body", one over the body alone with the
\* parts swapped, a signature under another secret, a header without v0
WebhookHeaders(bytes) ==
    {<<>>,
     <<Part("t", <<"1000">>, EmptyDigest, FALSE),
       Part("v0", <<>>, Hmac("s", <<"1000">> \o <<".">> \o bytes), FALSE)>>,
     <<Part("v0", <<>>, Hmac("s", bytes), TRUE), Part("t", <<"7">>, EmptyDigest, TRUE)>>,
     <<Part("t", <<"1000">>, EmptyDigest, FALSE),
       Part("v0", <<>>, Hmac("other", <<"1000">> \o <<".">> \o bytes), FALSE)>>,
     <<Part("t", <<"1000">>, EmptyDigest, FALSE)>>}

\* a request body: its bytes and what json.loads makes of them
Json(kind, top_agent_id, top_agent_obj, datakind, data_agent_id, data_agent_obj) ==
    [kind |-> kind, agent_id |-> top_agent_id, agent |-> top_agent_obj, datakind |-> datakind,
     data_agent_id |-> data_agent_id, data_agent |-> data_agent_obj]

HttpBody(bytes, json) == [bytes |-> bytes, json |-> json]

BodyPool == <<
    HttpBody(<<"he", "llo">>, Json("invalid", "", "", "none", "", "")),
    HttpBody(<<"he", InvalidByte, "llo">>, Json("invalid", "", "", "none", "", "")),
    HttpBody(<<"{data:{agent_id:agent_1}}">>, Json("dict", "", "", "dict", "agent_1", "")),
    HttpBody(<<"{data:{agent:{id:agent_2}}}">>, Json("dict", "", "", "dict", "", "agent_2")),
    HttpBody(<<"{agent_id:agent_9}">>, Json("dict", "agent_9", "", "none", "", "")),
    HttpBody(<<"{agent_id:agent_3}">>, Json("dict", "agent_3", "", "none", "", "")),
    HttpBody(<<"{data:{transcript:[]}}">>, Json("dict", "", "", "dict", "", "")),
    HttpBody(<<"{data:x,agent_id:agent_1}">>, Json("dict", "agent_1", "", "other", "", "")),
    HttpBody(<<"[1]">>, Json("list", "", "", "none", "", "")) >>

\* _normalize_event's agent_id, lines 232-238: "" for None, "<raise>" where
\* .get is called on something that is no dict
NormalizeAgentId(data) ==
    IF data.kind # "dict" THEN "<raise>"
    ELSE IF data.datakind = "other" THEN "<raise>"
    ELSE IF data.datakind = "dict"
    THEN StrOr(data.data_agent_id, StrOr(data.data_agent, data.agent_id))
    ELSE StrOr(data.agent_id, StrOr(data.agent, data.agent_id))

\* an environment variable that is not set: os.getenv gives None
Unset == "<unset>"

\* (os.getenv(name) or default): the default for an unset or empty variable
GetenvOr(value, default) == IF value = Unset \/ value = "" THEN default ELSE value

\* str.strip on the modelled values of the environment
EnvStrip(str) ==
    IF str = "  " THEN ""
    ELSE IF str = " TRUE " THEN "TRUE"
    ELSE IF str = " s " THEN "s"
    ELSE str

\* str.lower on them
EnvLower(str) == IF str \in {"TRUE", "True"} THEN "true" ELSE str

\* a flag that is on unless the variable says otherwise
SkipFlagDefaultOn(value) == EnvLower(EnvStrip(GetenvOr(value, "true"))) = "true"

\* line 75
SkipFlag(value) == EnvLower(EnvStrip(GetenvOr(value, "false"))) = "true"

\* lines 74-78: the module reads its configuration and refuses to load
\* without a secret unless the bypass is on
LoadModule ==
    /\ pc = "loading"
    /\ HMAC_SECRET' = EnvStrip(GetenvOr(ELEVENLABS_HMAC_SECRET, ""))
    /\ SKIP_HMAC' = SkipFlag(ELEVENLABS_SKIP_HMAC)
    /\ pc' = IF HMAC_SECRET' = "" /\ ~SKIP_HMAC' THEN "refused" ELSE "serving"
    /\ UNCHANGED <<envVars, panelVars, checkerVars, bookVars, aggVars, pageVars, batchVars, normVars, hmacVars,
                   ELEVENLABS_HMAC_SECRET, ELEVENLABS_SKIP_HMAC, AGENT_ID_TO_FILENAME_CACHE,
                   agents_dir, last_lookup, request, response, invoked>>

\* line 284: the signature is verified unless the bypass is on
SignatureChecked == ~SKIP_HMAC

\* handle_agent_event, lines 276-329: one request, answered
HandleAgentEvent ==
    /\ pc = "serving"
    /\ \E b \in 1..Len(BodyPool), outcome \in {"returns", "raises"} :
       \E h \in WebhookHeaders(BodyPool[b].bytes) :
        LET bytes == BodyPool[b].bytes
            data == BodyPool[b].json
            sig_ok == _verify_hmac(HMAC_SECRET, bytes, h)
            id == NormalizeAgentId(data)
            found == map_agent_id_to_filename(AGENT_ID_TO_FILENAME_CACHE, id)
        IN  /\ request' = [body |-> b, sig_header |-> h]
            /\ IF SignatureChecked /\ ~sig_ok
               THEN /\ response' = 401
                    /\ invoked' = FALSE
                    /\ UNCHANGED AGENT_ID_TO_FILENAME_CACHE
               ELSE IF data.kind = "invalid" \/ id = "<raise>"
               THEN /\ response' = 500
                    /\ invoked' = FALSE
                    /\ UNCHANGED AGENT_ID_TO_FILENAME_CACHE
               ELSE IF id = ""
               THEN /\ response' = 400
                    /\ invoked' = FALSE
                    /\ UNCHANGED AGENT_ID_TO_FILENAME_CACHE
               ELSE IF found.filename = NoFile
               THEN /\ response' = 404
                    /\ invoked' = FALSE
                    /\ UNCHANGED AGENT_ID_TO_FILENAME_CACHE
               ELSE /\ AGENT_ID_TO_FILENAME_CACHE' = found.cache
                    /\ invoked' = TRUE
                    /\ response' = IF outcome = "returns" THEN 200 ELSE 500
    /\ UNCHANGED <<pc, envVars, panelVars, checkerVars, bookVars, aggVars, pageVars, batchVars, normVars, hmacVars,
                   ELEVENLABS_HMAC_SECRET, ELEVENLABS_SKIP_HMAC, HMAC_SECRET, SKIP_HMAC,
                   agents_dir, last_lookup>>

HookIdle ==
    /\ ELEVENLABS_HMAC_SECRET = Unset
    /\ ELEVENLABS_SKIP_HMAC = Unset
    /\ HMAC_SECRET = ""
    /\ SKIP_HMAC = TRUE
    /\ AGENT_ID_TO_FILENAME_CACHE = Empty
    /\ agents_dir = BOT_CONFIG_DIR
    /\ last_lookup = NoLookup
    /\ request = [body |-> 0, sig_header |-> <<>>]
    /\ response = None
    /\ invoked = FALSE

\* ------------------------------------------------------ check_availability
\* the answers of service.freebusy().query(...).execute(): an error raised by
\* the client, or a body with or without the keys read at line 100
FreeBusy(raises, has_calendars, has_entry, has_busy, busy, errors) ==
    [raises |-> raises, has_calendars |-> has_calendars, has_entry |-> has_entry,
     has_busy |-> has_busy, busy |-> busy, errors |-> errors]

FreeBusyPool == <<
    FreeBusy(TRUE, FALSE, FALSE, FALSE, 0, 0),     \* HttpError
    FreeBusy(FALSE, FALSE, FALSE, FALSE, 0, 0),    \* {}
    FreeBusy(FALSE, TRUE, FALSE, FALSE, 0, 0),     \* {'calendars': {}}
    FreeBusy(FALSE, TRUE, TRUE, TRUE, 1, 0),       \* one busy slot
    FreeBusy(FALSE, TRUE, TRUE, TRUE, 0, 0),       \* 'busy': []
    FreeBusy(FALSE, TRUE, TRUE, FALSE, 0, 1) >>    \* {'errors': [notFound]}, no 'busy'

\* datetime.strptime(f'{date_str} {time_str}', '%Y-%m-%d %H:%M') raises
\* ValueError on what is no date or no time
StrptimeOk(d, t) == d \in {"2025-10-18", "9999-12-31"} /\ t \in {"10:00", "23:45"}

\* start + timedelta(minutes=30) leaves the range of datetime: OverflowError
PastMaxDatetime(d, t) == d = "9999-12-31" /\ t = "23:45"

\* lines 58-62: the credentials are loaded; any error there gives False
GetCalendarService ==
    /\ pc = "chk_service"
    /\ IF key_file_ok
       THEN pc' = "chk_parse" /\ UNCHANGED slot_free
       ELSE pc' = "chk_done" /\ slot_free' = "False"
    /\ UNCHANGED <<envVars, panelVars, bookVars, aggVars, pageVars, batchVars, normVars, hmacVars,
                   hookVars, date_str, time_str, key_file_ok, freebusy, time_min>>

\* lines 68-82: the interval of 30 minutes from the date and the time; only
\* ValueError is caught
ParseSlot ==
    /\ pc = "chk_parse"
    /\ IF ~StrptimeOk(date_str, time_str)
       THEN pc' = "chk_done" /\ slot_free' = "False" /\ UNCHANGED time_min
       ELSE IF PastMaxDatetime(date_str, time_str)
       THEN pc' = "raised" /\ UNCHANGED <<slot_free, time_min>>
       ELSE pc' = "chk_query" /\ time_min' = <<date_str, time_str>> /\ UNCHANGED slot_free
    /\ UNCHANGED <<envVars, panelVars, bookVars, aggVars, pageVars, batchVars, normVars, hmacVars,
                   hookVars, date_str, time_str, key_file_ok, freebusy>>

\* lines 87-111: the query and the reading of its answer,
\* response['calendars'][CALENDAR_ID].get('busy', [])
FreeBusyQuery ==
    /\ pc = "chk_query"
    /\ LET answered == FreeBusyPool[freebusy]
       IN  slot_free' =
              IF answered.raises \/ ~answered.has_calendars \/ ~answered.has_entry THEN "False"
              ELSE IF answered.has_busy /\ answered.busy > 0 THEN "False"
              ELSE "True"
    /\ pc' = "chk_done"
    /\ UNCHANGED <<envVars, panelVars, bookVars, aggVars, pageVars, batchVars, normVars, hmacVars,
                   hookVars, date_str, time_str, key_file_ok, freebusy, time_min>>

CheckerIdle ==
    /\ date_str = ""
    /\ time_str = ""
    /\ key_file_ok = FALSE
    /\ freebusy = 0
    /\ time_min = ""
    /\ slot_free = "unset"

\* ------------------------------------------------------- the agent panel
\* the dates a panel request may carry: days, a month that does not exist,
\* another format
DateStrings == {"2025-10-01", "2025-10-02", "2025-11-02", "2025-13-01", "01/10/2025"}

\* datetime.strptime(date, '%Y-%m-%d') raises ValueError on the others
WellFormed(date) == date \in {"2025-10-01", "2025-10-02", "2025-11-02"}

\* int(time.mktime(strptime(date).timetuple())), the process running in UTC
Midnight(date) ==
    IF date = "2025-10-01" THEN 1759276800
    ELSE IF date = "2025-10-02" THEN 1759363200
    ELSE 1762041600

\* main.py line 670: + timedelta(days=1, seconds=-1)
EndOfDay(date) == Midnight(date) + 86400 - 1

\* a tenant's config file as far as the panel reads it
TenantConfig(agent, phone) == [elevenlabs_agent_id |-> agent, eleven_phone_number_id |-> phone]

\* an uploaded file: its name, the header of the CSV and its phone_number cells
CsvFile(filename, header, cells) == [filename |-> filename, header |-> header, cells |-> cells]

NoCsv == CsvFile("", <<>>, <<>>)

NoPanelRequest ==
    [endpoint |-> "", config |-> TenantConfig("", ""), start_date |-> "", end_date |-> "",
     batch_name |-> "", csv_file |-> NoCsv]

\* a call by keyword: the function named and the arguments under their names
NoPanelCall == [fn |-> "", kwargs |-> Empty]

\* the parameters of the service functions, none of them with a default:
\* elevenlabs_service.py lines 358 and 450-455
Parameters(fn) ==
    IF fn = "get_agent_consumption_data" THEN {"agent_id", "start_unix_ts", "end_unix_ts"}
    ELSE {"call_name", "agent_id", "phone_number_id", "recipients_json"}

\* Python binds a call by keyword when every name is a parameter and every
\* parameter without a default is given; it raises TypeError otherwise
Accepts(call) == DOMAIN call.kwargs = Parameters(call.fn)

PanelIdle ==
    /\ panel_request = NoPanelRequest
    /\ panel_call = NoPanelCall
    /\ panel_response = None
    /\ upstream_called = FALSE

\* get_agent_data up to the call of the aggregator, main.py lines 641-684
GetAgentData ==
    /\ pc = "panel"
    /\ panel_request.endpoint = "/agent/data"
    /\ LET bot_agent_id == panel_request.config.elevenlabs_agent_id
           start_date == panel_request.start_date
           end_date == panel_request.end_date
       IN  IF bot_agent_id = ""
           THEN pc' = "panel_done" /\ panel_response' = 400 /\ UNCHANGED panel_call
           ELSE IF ~WellFormed(start_date) \/ ~WellFormed(end_date)
           THEN pc' = "panel_done" /\ panel_response' = 400 /\ UNCHANGED panel_call
           ELSE /\ panel_call' = [fn |-> "get_agent_consumption_data",
                                 kwargs |-> [agent_id |-> bot_agent_id,
                                             start_unix |-> Midnight(start_date),
                                             end_unix |-> EndOfDay(end_date)]]
                /\ pc' = "panel_call"
                /\ UNCHANGED panel_response
    /\ UNCHANGED <<envVars, checkerVars, bookVars, aggVars, pageVars, batchVars, normVars, hmacVars, hookVars,
                   panel_request, upstream_called>>

\* handle_batch_call up to the call of the dispatcher, main.py lines 721-779
HandleBatchCall ==
    /\ pc = "panel"
    /\ panel_request.endpoint = "/agent/start-batch-call"
    /\ LET csv_file == panel_request.csv_file
           bot_agent_id == panel_request.config.elevenlabs_agent_id
           bot_phone_id == panel_request.config.eleven_phone_number_id
           has_column == \E i \in 1..Len(csv_file.header) : csv_file.header[i] = "phone_number"
           recipients == [i \in 1..Len(csv_file.cells) |-> [phone_number |-> csv_file.cells[i]]]
       IN  IF \/ csv_file.filename \notin {"lote.csv"}
              \/ bot_agent_id = "" \/ bot_phone_id = ""
              \/ (csv_file.cells # <<>> /\ ~has_column)
              \/ recipients = <<>>
           THEN pc' = "panel_done" /\ panel_response' = 400 /\ UNCHANGED panel_call
           ELSE /\ panel_call' = [fn |-> "start_batch_call",
                                 kwargs |-> [batch_name |-> panel_request.batch_name,
                                             agent_id |-> bot_agent_id,
                                             phone_number_id |-> bot_phone_id,
                                             recipients |-> recipients]]
                /\ pc' = "panel_call"
                /\ UNCHANGED panel_response
    /\ UNCHANGED <<envVars, checkerVars, bookVars, aggVars, pageVars, batchVars, normVars, hmacVars, hookVars,
                   panel_request, upstream_called>>

\* the call itself, main.py lines 679 and 774: the arguments are bound to the
\* parameters of the function; a TypeError leaves the handler and the
\* framework answers 500; a function that runs answers ok or not
ServiceCall ==
    /\ pc = "panel_call"
    /\ pc' = "panel_done"
    /\ IF Accepts(panel_call)
       THEN /\ upstream_called' = TRUE
            /\ \E ok \in BOOLEAN :
                  panel_response' = IF ok \/ panel_call.fn = "get_agent_consumption_data"
                                    THEN 200 ELSE 500
       ELSE /\ upstream_called' = FALSE
            /\ panel_response' = 500
    /\ UNCHANGED <<envVars, checkerVars, bookVars, aggVars, pageVars, batchVars, normVars, hmacVars, hookVars,
                   panel_request, panel_call>>

\* ------------------------------------------------------ the booking flow
\* results[key] = status
Put(dict, key, status) ==
    [k \in DOMAIN dict \cup {key} |-> IF k = key THEN status ELSE dict[k]]

\* the processor's return values: the results dict, or {"error": ...}
Results(dict) == [kind |-> "results", results |-> dict]

ErrorResult == [kind |-> "error", results |-> Empty]

\* the endpoint's JSONResponse, by its status code
Http(status) == [kind |-> "http", status |-> status]

Pending == [kind |-> "pending"]

\* a key that the dict does not have
NoKey == "<no key>"

NoData == [cliente_nombre_completo |-> NoKey, cliente_telefono |-> NoKey, cliente_email |-> NoKey]

\* dict.get(key, default)
GetOrDefault(dict, key, default) == IF dict[key] = NoKey THEN default ELSE dict[key]

\* str.split(' ', 1) on the modelled names
SplitOnce(str) == IF str = "Ana Ruiz" THEN <<"Ana", "Ruiz">> ELSE <<str>>

\* processor.py lines 57-69: the arguments of book_appointment made from the
\* extracted fields, 'N/A' standing for a key the extractor left out
_map_extracted_data(extracted) ==
    LET full_name == SplitOnce(GetOrDefault(extracted, "cliente_nombre_completo", "N/A"))
    IN  [nombre |-> full_name[1],
         apellido |-> IF Len(full_name) > 1 THEN full_name[2] ELSE "N/A",
         telefono |-> GetOrDefault(extracted, "cliente_telefono", "N/A"),
         email |-> GetOrDefault(extracted, "cliente_email", "N/A")]

\* main.py lines 398-405: the arguments of book_appointment in /agendar_cita
EndpointArgs(payload) ==
    [nombre |-> payload.cliente_nombre_completo, apellido |-> "N/A", telefono |-> "N/A",
     email |-> "test@webhook.com"]

\* Python's True and False beside "unset"
PyBool(b) == IF b THEN "True" ELSE "False"

\* a booking attempted whatever check_availability said
MayBookAlways(available) == available \in {"True", "False"}

\* processor.py line 152 and main.py line 385: if not is_available
MayBook(available) == available = "True"

\* process_agent_event up to the availability check, lines 76-147: config
\* read, booking phrase looked for, fields extracted by the LLM
ProcessorStart ==
    /\ pc = "proc_start"
    /\ \E config_found \in BOOLEAN, debe_agendar \in BOOLEAN, extracted \in BOOLEAN :
          IF ~config_found
          THEN /\ answer' = ErrorResult
               /\ pc' = "proc_done"
               /\ UNCHANGED results
          ELSE IF ~debe_agendar
          THEN /\ pc' = "email_cliente"
               /\ UNCHANGED <<results, answer>>
          ELSE IF ~extracted
          THEN /\ results' = Put(results, "agendamiento", "failure: extraccion")
               /\ pc' = "email_cliente"
               /\ UNCHANGED answer
          ELSE IF cita[1] = "" \/ cita[2] = ""
          THEN /\ results' = Put(results, "agendamiento", "failure: datos incompletos")
               /\ pc' = "email_cliente"
               /\ UNCHANGED answer
          ELSE /\ pc' = "check"
               /\ UNCHANGED <<results, answer>>
    /\ UNCHANGED <<envVars, panelVars, checkerVars, aggVars, pageVars, batchVars, normVars, hmacVars, hookVars, flow,
                   cita, customer_data_raw, workflow, twilio_configurado, client_email, is_available, checks, bookings, book_args,
                   book_result, step>>

\* agendar_cita_endpoint up to the availability check, main.py lines 367-378
EndpointStart ==
    /\ pc = "end_start"
    /\ \E payload_valid \in BOOLEAN :
          IF payload_valid
          THEN pc' = "check" /\ UNCHANGED answer
          ELSE pc' = "end_done" /\ answer' = Http(400)
    /\ UNCHANGED <<envVars, panelVars, checkerVars, aggVars, pageVars, batchVars, normVars, hmacVars, hookVars, flow,
                   cita, customer_data_raw, workflow, twilio_configurado, client_email, is_available, checks, bookings, book_args,
                   book_result, results, step>>

\* check_availability(fecha_str, hora_str) and the test of its result:
\* processor.py lines 150-154, main.py lines 383-392; check_availability
\* returns False on every error of its own (calendar_checker.py)
CheckAvailability ==
    /\ pc = "check"
    /\ checks' = Append(checks, cita)
    /\ \E available \in BOOLEAN :
          /\ is_available' = PyBool(available)
          /\ IF MayBook(PyBool(available))
             THEN /\ pc' = "book"
                  /\ UNCHANGED <<results, answer>>
             ELSE IF flow = "processor"
             THEN /\ results' = Put(results, "agendamiento", "failure: no disponible")
                  /\ pc' = "email_cliente"
                  /\ UNCHANGED answer
             ELSE /\ answer' = Http(409)
                  /\ pc' = "end_done"
                  /\ UNCHANGED results
    /\ UNCHANGED <<envVars, panelVars, checkerVars, aggVars, pageVars, batchVars, normVars, hmacVars, hookVars, flow,
                   cita, customer_data_raw, workflow, twilio_configurado, client_email, bookings, book_args, book_result, step>>

\* book_appointment(..., fechaCita=fecha_str, horaCita=hora_str) and what
\* is made of its result: processor.py lines 160-173, main.py lines 398-455
BookAppointment ==
    /\ pc = "book"
    /\ bookings' = Append(bookings, cita)
    /\ book_args' = Append(book_args, IF flow = "processor"
                                      THEN _map_extracted_data(customer_data_raw)
                                      ELSE EndpointArgs(customer_data_raw))
    /\ \E outcome \in {"success", "error", "raises"} :
          IF outcome = "raises"
          THEN /\ answer' = IF flow = "processor" THEN ErrorResult ELSE Http(500)
               /\ pc' = IF flow = "processor" THEN "proc_done" ELSE "end_done"
               /\ UNCHANGED <<results, book_result>>
          ELSE /\ book_result' = outcome
               /\ IF flow = "processor"
                  THEN /\ results' = Put(results, "agendamiento", outcome)
                       /\ pc' = "email_cliente"
                       /\ UNCHANGED answer
                  ELSE IF outcome = "success"
                  THEN /\ pc' = "sms"
                       /\ UNCHANGED <<results, answer>>
                  ELSE /\ answer' = Http(500)
                       /\ pc' = "end_done"
                       /\ UNCHANGED results
    /\ UNCHANGED <<envVars, panelVars, checkerVars, aggVars, pageVars, batchVars, normVars, hmacVars, hookVars, flow,
                   cita, customer_data_raw, workflow, twilio_configurado, client_email, is_available, checks, step>>

\* processor.py lines 183-189: the client's email; send_email_to_client
\* returns True when the mail was sent and False when the transcript holds
\* no address, the agent has no maps link or SMTP failed, and line 186
\* writes "ok" after every return
SendClientEmail ==
    /\ pc = "email_cliente"
    /\ \E outcome \in {"sent", "no address", "no maps link", "smtp failed", "raises"} :
          /\ client_email' = outcome
          /\ results' = Put(results, "email_cliente", IF outcome = "raises" THEN "error" ELSE "ok")
    /\ step' = 1
    /\ pc' = "workflow"
    /\ UNCHANGED <<envVars, panelVars, checkerVars, aggVars, pageVars, batchVars, normVars, hmacVars, hookVars, flow,
                   cita, customer_data_raw, workflow, twilio_configurado, is_available, checks, bookings, book_args,
                   book_result, answer>>

\* config.get("workflow") or ["email"], line 193
WorkflowSteps == IF workflow = <<>> THEN <<"email">> ELSE workflow

\* processor.py lines 195-210: one step of the workflow list
WorkflowStep ==
    /\ pc = "workflow"
    /\ step <= Len(WorkflowSteps)
    /\ LET step_norm == WorkflowSteps[step]
       IN  IF step_norm \in {"email", "enviar_email"}
           THEN \E outcome \in {"ok", "error: returned", "error: raised"} :
                   results' = Put(results, "email_interno", outcome)
           ELSE results' = Put(results, IF step_norm = "" THEN "unknown" ELSE step_norm, "skipped")
    /\ step' = step + 1
    /\ UNCHANGED <<pc, envVars, panelVars, checkerVars, aggVars, pageVars, batchVars, normVars, hmacVars, hookVars, flow,
                   cita, customer_data_raw, workflow, twilio_configurado, client_email, is_available, checks, bookings, book_args,
                   book_result, answer>>

\* processor.py line 212: return results
ProcessorReturn ==
    /\ pc = "workflow"
    /\ step > Len(WorkflowSteps)
    /\ answer' = Results(results)
    /\ pc' = "proc_done"
    /\ UNCHANGED <<envVars, panelVars, checkerVars, aggVars, pageVars, batchVars, normVars, hmacVars, hookVars, flow,
                   cita, customer_data_raw, workflow, twilio_configurado, client_email, is_available, checks, bookings, book_args,
                   book_result, results, step>>

\* main.py lines 412-445: the confirmation SMS, sent, failing or not
\* configured, and the 200 answer
SendSms ==
    /\ pc = "sms"
    /\ \E outcome \in IF twilio_configurado THEN {"sent", "raises", "no telefono"}
                                           ELSE {"not configured"} :
          answer' = Http(200)
    /\ pc' = "end_done"
    /\ UNCHANGED <<envVars, panelVars, checkerVars, aggVars, pageVars, batchVars, normVars, hmacVars, hookVars, flow,
                   cita, customer_data_raw, workflow, twilio_configurado, client_email, is_available, checks, bookings, book_args,
                   book_result, results, step>>

BookIdle ==
    /\ flow = "none"
    /\ cita = <<"", "">>
    /\ customer_data_raw = NoData
    /\ workflow = <<>>
    /\ twilio_configurado = FALSE
    /\ client_email = "none"
    /\ is_available = "unset"
    /\ checks = <<>>
    /\ bookings = <<>>
    /\ book_args = <<>>
    /\ book_result = "none"
    /\ results = Empty
    /\ step = 0
    /\ answer = Pending

\* ------------------------------------------------------------------------
\* _paginate_conversations called on its own, against every modelled listing
Windows == {<<T0, T0>>, <<T0, T0 + 86399>>}

AggIdle ==
    /\ attempt = 0
    /\ vidx = 0
    /\ last_status = None
    /\ delay = 0
    /\ result = NoResult
    /\ roundLog = <<>>
    /\ primReqs = 0
    /\ all404 = TRUE
    /\ sleeps = <<>>

\* _normalize_conversations_list applied to one raw page
\* accumulators that keep what the call before left in them
AccStartKept(left) == IF left.calls = None THEN Metrics(0, 0, 0) ELSE left

\* lines 172-174: calls, credits and dur_s are locals that start at zero,
\* whatever the call before left behind
AccStart(left) == Metrics(0, 0, 0)

\* a call of the normalizer on the page; it is called a second time on the
\* same page
Normalize ==
    /\ pc \in {"normalize", "normalized"}
    /\ LET acc == AccStart(normalized)
           sum == _normalize_conversations_list(page)
       IN  normalized' = Metrics(acc.calls + sum.calls, acc.credits + sum.credits,
                                 acc.duration_secs + sum.duration_secs)
    /\ previous' = normalized
    /\ pc' = IF pc = "normalize" THEN "normalized" ELSE "renormalized"
    /\ UNCHANGED <<envVars, panelVars, checkerVars, bookVars, aggVars, pageVars, batchVars, hmacVars, hookVars, page>>

NormIdle ==
    /\ page = TextBody
    /\ normalized = Metrics(None, None, None)
    /\ previous = Metrics(None, None, None)

BatchIdle ==
    /\ agent_id = ""
    /\ phone_number_id = ""
    /\ recipients_json = <<>>
    /\ BatchEntry

PaginateIdle ==
    /\ PaginateEntry
    /\ tot = NoTot
    /\ settle = {}
    /\ tail = 0
    /\ allMore = TRUE
    /\ pageReqs = 0
    /\ lastReq = NoReq
    /\ lastResp = 0
    /\ windowCalls = 0

InitPaginate ==
    /\ CheckerIdle
    /\ PanelIdle
    /\ BookIdle
    /\ pc = "paginate"
    /\ xi_api_key \in BOOLEAN
    /\ \E w \in Windows : start_unix_ts = w[1] /\ end_unix_ts = w[2]
    /\ AggIdle
    /\ PaginateEntry
    /\ tot = NoTot
    /\ settle = TailPool
    /\ tail = 0
    /\ allMore = TRUE
    /\ pageReqs = 0
    /\ lastReq = NoReq
    /\ lastResp = 0
    /\ windowCalls = 0
    /\ BatchIdle
    /\ NormIdle
    /\ HmacIdle
    /\ HookIdle

NextPaginate == PageRequest

SpecPaginate == InitPaginate /\ [][NextPaginate]_vars

\* get_agent_consumption_data, against a listing that settles on a last
\* page or on a transport error
InitConsumption ==
    /\ CheckerIdle
    /\ PanelIdle
    /\ BookIdle
    /\ pc = "primary"
    /\ xi_api_key \in BOOLEAN
    /\ \E w \in Windows : start_unix_ts = w[1] /\ end_unix_ts = w[2]
    /\ attempt = 1
    /\ vidx = 1
    /\ last_status = None
    /\ delay = InitialDelay
    /\ result = NoResult
    /\ roundLog = <<>>
    /\ primReqs = 0
    /\ all404 = TRUE
    /\ sleeps = <<>>
    /\ PaginateEntry
    /\ tot = NoTot
    /\ settle = {1, 3}
    /\ tail = 0
    /\ allMore = TRUE
    /\ pageReqs = 0
    /\ lastReq = NoReq
    /\ lastResp = 0
    /\ windowCalls = 0
    /\ BatchIdle
    /\ NormIdle
    /\ HmacIdle
    /\ HookIdle

NextConsumption == TryVariant \/ PageRequest \/ FallbackReturn

SpecConsumption == InitConsumption /\ [][NextConsumption]_vars

\* start_batch_call on every recipient list of up to MaxRecipients rows
RecipientLists ==
    UNION {[1..n -> [phone_number : PhoneValues]] : n \in 0..MaxRecipients}

InitBatch ==
    /\ CheckerIdle
    /\ PanelIdle
    /\ BookIdle
    /\ pc = "batch_start"
    /\ xi_api_key \in BOOLEAN
    /\ start_unix_ts = T0
    /\ end_unix_ts = T0
    /\ AggIdle
    /\ PaginateIdle
    /\ agent_id \in {"", "agent_1"}
    /\ phone_number_id \in {"", "phnum_1"}
    /\ recipients_json \in RecipientLists \cup {NotAList}
    /\ BatchEntry
    /\ NormIdle
    /\ HmacIdle
    /\ HookIdle

NextBatch == StartBatchCall \/ SkipRecipient \/ PostOutboundCall \/ BatchReturn

SpecBatch == InitBatch /\ [][NextBatch]_vars

\* _normalize_conversations_list on every page of up to MaxItems runs
RecordPool == <<rInWindow, rOld, rLate, rNoCred, rUsd, rNoStart, rNested, NotADict,
                rFailed, rSucceeded>>

Runs == {Run(RecordPool[i], n) : i \in 1..Len(RecordPool), n \in 1..MaxRun}

ItemLists == UNION {[1..k -> Runs] : k \in 0..MaxItems}

InitNormalize ==
    /\ CheckerIdle
    /\ PanelIdle
    /\ BookIdle
    /\ pc = "normalize"
    /\ xi_api_key = TRUE
    /\ start_unix_ts = T0
    /\ end_unix_ts = T0
    /\ AggIdle
    /\ PaginateIdle
    /\ BatchIdle
    /\ \E items \in ItemLists, shape \in {<<"dict", "conversations">>, <<"dict", "">>, <<"list", "">>} :
          page = Body(shape[1], shape[2], items, "", "", "", "", "", "", FALSE)
    /\ normalized = Metrics(None, None, None)
    /\ previous = Metrics(None, None, None)
    /\ HmacIdle
    /\ HookIdle

NextNormalize == Normalize

SpecNormalize == InitNormalize /\ [][NextNormalize]_vars

\* _verify_hmac on every modelled secret, body and signature header
Secrets == {"s", "s2"}

Timestamps == {<<"1000">>, <<"7">>}

ByteBodies == {<<"he", "llo">>, <<"he", InvalidByte, "llo">>, <<>>, <<".", InvalidByte>>}

\* what a signer may have signed: a body as it is or as it decodes, alone or
\* behind a timestamp, with or without the dot
SignedMessages ==
    LET bs == ByteBodies \cup {Utf8Ignore(b) : b \in ByteBodies}
    IN  bs \cup {t \o <<".">> \o b : t \in Timestamps \cup {<<>>}, b \in bs}
           \cup {t \o b : t \in Timestamps, b \in bs}

Digests == {Hmac(k, m) : k \in Secrets, m \in SignedMessages} \cup {EmptyDigest}

\* headers with at most one t= part and at most one v0= part, in either
\* order, padded or not, and possibly a v1= part between them
SigHeaders ==
    {<<>>}
    \cup {<<Part("t", t, EmptyDigest, pad)>> : t \in Timestamps \cup {<<>>}, pad \in BOOLEAN}
    \cup {<<Part("v0", <<>>, d, pad)>> : d \in Digests, pad \in BOOLEAN}
    \cup {<<Part("t", t, EmptyDigest, pad), Part("v0", <<>>, d, pad)>> :
             t \in Timestamps \cup {<<>>}, d \in Digests, pad \in BOOLEAN}
    \cup {<<Part("v0", <<>>, d, pad), Part("v1", <<>>, d, FALSE), Part("t", t, EmptyDigest, pad)>> :
             t \in Timestamps \cup {<<>>}, d \in Digests, pad \in BOOLEAN}

InitHmac ==
    /\ CheckerIdle
    /\ PanelIdle
    /\ BookIdle
    /\ pc = "verify"
    /\ xi_api_key = TRUE
    /\ start_unix_ts = T0
    /\ end_unix_ts = T0
    /\ AggIdle
    /\ PaginateIdle
    /\ BatchIdle
    /\ NormIdle
    /\ HookIdle
    /\ secret \in Secrets
    /\ body \in ByteBodies
    /\ sig_header \in SigHeaders
    /\ accepted = FALSE

NextHmac == VerifyHmac

SpecHmac == InitHmac /\ [][NextHmac]_vars

\* the webhook service, from the loading of the module on, handling
\* requests one after the other
SecretSettings == {Unset, "", "  ", "s", " s "}

SkipSettings == {Unset, "", "false", "true", " TRUE ", "True", "1", "yes"}

InitWebhook ==
    /\ CheckerIdle
    /\ PanelIdle
    /\ BookIdle
    /\ pc = "loading"
    /\ xi_api_key = TRUE
    /\ start_unix_ts = T0
    /\ end_unix_ts = T0
    /\ AggIdle
    /\ PaginateIdle
    /\ BatchIdle
    /\ NormIdle
    /\ HmacIdle
    /\ ELEVENLABS_HMAC_SECRET \in SecretSettings
    /\ ELEVENLABS_SKIP_HMAC \in SkipSettings
    /\ HMAC_SECRET = ""
    /\ SKIP_HMAC = FALSE
    /\ AGENT_ID_TO_FILENAME_CACHE = Empty
    /\ agents_dir = BOT_CONFIG_DIR
    /\ last_lookup = NoLookup
    /\ request = [body |-> 0, sig_header |-> <<>>]
    /\ response = None
    /\ invoked = FALSE

NextWebhook == LoadModule \/ HandleAgentEvent

SpecWebhook == InitWebhook /\ [][NextWebhook]_vars

\* check_availability on every modelled date, time, key file and answer
InitChecker ==
    /\ BookIdle
    /\ PanelIdle
    /\ pc = "chk_service"
    /\ xi_api_key = TRUE
    /\ start_unix_ts = T0
    /\ end_unix_ts = T0
    /\ AggIdle
    /\ PaginateIdle
    /\ BatchIdle
    /\ NormIdle
    /\ HmacIdle
    /\ HookIdle
    /\ date_str \in {"2025-10-18", "9999-12-31", "18/10/2025", ""}
    /\ time_str \in {"10:00", "23:45", "10am"}
    /\ key_file_ok \in BOOLEAN
    /\ freebusy \in 1..Len(FreeBusyPool)
    /\ time_min = ""
    /\ slot_free = "unset"

NextChecker == GetCalendarService \/ ParseSlot \/ FreeBusyQuery

SpecChecker == InitChecker /\ [][NextChecker]_vars

\* one authenticated request to the agent panel
TenantConfigs == {TenantConfig(a, p) : a \in {"", "agent_1"}, p \in {"", "phnum_1"}}

CsvFiles == {
    CsvFile("lote.csv", <<"phone_number", "name">>, <<"+15551230001", "+15551230002">>),
    CsvFile("lote.csv", <<"phone_number">>, <<"+15551230001">>),
    CsvFile("lote.csv", <<"phone_number">>, <<>>),
    CsvFile("lote.csv", <<"telefono">>, <<"+15551230001">>),
    CsvFile("lote.xlsx", <<"phone_number">>, <<"+15551230001">>) }

InitPanel ==
    /\ CheckerIdle
    /\ BookIdle
    /\ pc = "panel"
    /\ xi_api_key = TRUE
    /\ start_unix_ts = T0
    /\ end_unix_ts = T0
    /\ AggIdle
    /\ PaginateIdle
    /\ BatchIdle
    /\ NormIdle
    /\ HmacIdle
    /\ HookIdle
    /\ \E config \in TenantConfigs :
          \/ \E start_date \in DateStrings, end_date \in DateStrings :
                panel_request = [endpoint |-> "/agent/data", config |-> config,
                                 start_date |-> start_date, end_date |-> end_date,
                                 batch_name |-> "", csv_file |-> NoCsv]
          \/ \E csv_file \in CsvFiles :
                panel_request = [endpoint |-> "/agent/start-batch-call", config |-> config,
                                 start_date |-> "", end_date |-> "",
                                 batch_name |-> "lote", csv_file |-> csv_file]
    /\ panel_call = NoPanelCall
    /\ panel_response = None
    /\ upstream_called = FALSE

NextPanel == GetAgentData \/ HandleBatchCall \/ ServiceCall

SpecPanel == InitPanel /\ [][NextPanel]_vars

\* lookups of agent ids in one process while the config files change
InitCache ==
    /\ CheckerIdle
    /\ PanelIdle
    /\ BookIdle
    /\ pc = "lookups"
    /\ xi_api_key = TRUE
    /\ start_unix_ts = T0
    /\ end_unix_ts = T0
    /\ AggIdle
    /\ PaginateIdle
    /\ BatchIdle
    /\ NormIdle
    /\ HmacIdle
    /\ ELEVENLABS_HMAC_SECRET = Unset
    /\ ELEVENLABS_SKIP_HMAC = Unset
    /\ HMAC_SECRET = ""
    /\ SKIP_HMAC = TRUE
    /\ AGENT_ID_TO_FILENAME_CACHE = Empty
    /\ agents_dir \in AgentDirs
    /\ last_lookup = NoLookup
    /\ request = [body |-> 0, sig_header |-> <<>>]
    /\ response = None
    /\ invoked = FALSE

NextCache == LookupAgent \/ EditConfigs

SpecCache == InitCache /\ [][NextCache]_vars

\* what the extractor may return beside fecha and hora: each field a value,
\* an empty string (the prompt's answer for a field not mentioned) or no key
ExtractedData ==
    [cliente_nombre_completo : {NoKey, "", "Ana", "Ana Ruiz"},
     cliente_telefono : {NoKey, "", "555-4321"},
     cliente_email : {NoKey, "", "ana@example.com"}]

\* the client fields of a valid /agendar_cita payload
PayloadData ==
    [cliente_nombre_completo |-> "Ana Ruiz", cliente_telefono |-> "555-4321",
     cliente_email |-> NoKey]

\* a booking request through the workflow processor or through /agendar_cita
Citas == {<<"2025-10-18", "10:00">>, <<"2025-10-18", "">>, <<"", "10:00">>, <<"2025-10-19", "16:30">>}

WorkflowLists == {<<>>, <<"email">>, <<"sms", "enviar_email">>, <<"", "email">>,
                  <<"agendamiento", "email">>}

InitBooking ==
    /\ CheckerIdle
    /\ PanelIdle
    /\ flow \in {"processor", "endpoint"}
    /\ pc = IF flow = "processor" THEN "proc_start" ELSE "end_start"
    /\ cita \in Citas
    /\ customer_data_raw \in (IF flow = "processor" THEN ExtractedData ELSE {PayloadData})
    /\ workflow \in WorkflowLists
    /\ twilio_configurado \in BOOLEAN
    /\ client_email = "none"
    /\ is_available = "unset"
    /\ checks = <<>>
    /\ bookings = <<>>
    /\ book_args = <<>>
    /\ book_result = "none"
    /\ results = Empty
    /\ step = 0
    /\ answer = Pending
    /\ xi_api_key = TRUE
    /\ start_unix_ts = T0
    /\ end_unix_ts = T0
    /\ AggIdle
    /\ PaginateIdle
    /\ BatchIdle
    /\ NormIdle
    /\ HmacIdle
    /\ HookIdle

NextBooking ==
    \/ ProcessorStart
    \/ EndpointStart
    \/ CheckAvailability
    \/ BookAppointment
    \/ SendClientEmail
    \/ WorkflowStep
    \/ ProcessorReturn
    \/ SendSms

SpecBooking == InitBooking /\ [][NextBooking]_vars

\* ======================================================================
\* The claims
\* ======================================================================

\* C1: when every analytics variant answers 404, get_agent_consumption_data
\* requests each of the 4 variants once, in one round and without sleeping,
\* runs no second or third round, and then calls _paginate_conversations.
C1_NotFoundShortCircuit ==
    (xi_api_key /\ all404) =>
        /\ primReqs <= Len(Variants)
        /\ sleeps = <<>>
        /\ attempt = 1
        /\ primReqs < Len(Variants) => (pc = "primary" /\ vidx = primReqs + 1)
        /\ primReqs = Len(Variants) => pc \in {"paginate", "paginated", "done"}
        /\ (primReqs = Len(Variants) /\ pc = "done") => pageReqs >= 1

\* C1 witness: four 404 answers, and the fallback is about to fetch its first page
C1_Witness ==
    all404 /\ primReqs = Len(Variants) /\ pc = "paginate" /\ pageReqs = 0 /\ sleeps = <<>>

\* C2: _paginate_conversations never issues more than 200 page requests and
\* every request that does not end the loop adds a page, so the loop ends;
\* against a listing that always reports has_more with a cursor it stops after
\* exactly 200 requests and returns the totals of the 200 pages fetched.
C2_PaginationCap ==
    /\ pageReqs <= PageCap
    /\ pc = "paginate" => (pageReqs = pages /\ pages < PageCap)
    /\ pc = "paginated" => (pages <= pageReqs /\ pageReqs <= pages + 1)
    /\ (pc = "paginated" /\ allMore /\ pageReqs > 0) =>
           /\ pageReqs = PageCap
           /\ tot = PaginateTotals(total_calls, total_credits, total_secs, PageCap)
           /\ tot.calls >= PageCap

\* C2 witness: the listing reported has_more and a cursor 200 times and the
\* function has returned
C2_Witness == pc = "paginated" /\ allMore /\ pageReqs = PageCap /\ tot.pages = PageCap

\* C3: against an endpoint that answers 503 to every request,
\* _post_outbound_call makes exactly MAX_RETRIES requests for the recipient
\* and then returns a failure that carries status 503.
C3_RetryCap ==
    /\ (pc = "batch_loop" /\ curAll503) => curReqs < MAX_RETRIES
    /\ lastCall.all503 =>
           (lastCall.reqs = MAX_RETRIES /\ ~lastCall.ok /\ lastCall.status = 503
            /\ lastCall.err = "ElevenLabs error")

\* C3 witness: a recipient's call failed after three 503 answers
C3_Witness == lastCall.all503 /\ lastCall.reqs = MAX_RETRIES /\ lastCall.status = 503

OnlySecondBlank ==
    /\ Len(recipients_json) = 3
    /\ recipients_json # NotAList
    /\ recipients_json[2].phone_number = ""
    /\ recipients_json[1].phone_number \notin {Absent, "", "  "}
    /\ recipients_json[3].phone_number \notin {Absent, "", "  "}

\* C4: in start_batch_call every recipient adds one to exactly one of sent
\* and failed: sent + failed is the number of recipients processed so far,
\* failures holds one entry per failed recipient, after the loop
\* sent + failed = total = len(recipients); for 3 recipients of which only the
\* second has an empty number and whose two calls succeed: sent 2, failed 1.
C4_Counters ==
    /\ sent + failed = idx
    /\ Len(failures) = failed
    /\ idx <= Len(recipients_json)
    /\ (pc = "batch_loop" /\ idx = Len(recipients_json)) =>
           (sent + failed = total /\ total = Len(recipients_json) /\ Len(failures) = failed)
    /\ (pc = "batch_done" /\ batch_result.ok) => idx = Len(recipients_json)
    /\ (OnlySecondBlank /\ idx = 3 /\ \A k \in 1..Len(failures) : failures[k].row = 2) =>
           (sent = 2 /\ failed = 1)

\* C4 witness: the 3-recipient scenario has run to its end
C4_Witness ==
    /\ OnlySecondBlank /\ pc = "batch_loop" /\ idx = 3 /\ total = 3
    /\ sent = 2 /\ failed = 1 /\ failures[1].row = 2 /\ outReqs >= 2

\* the phone_number is missing or blank after trimming
BlankPhone(r) == r.phone_number \in {Absent, "", "  "}

HeaderT(header) ==
    IF \E i \in 1..Len(header) : header[i].key = "t"
    THEN (CHOOSE q \in {header[i] : i \in 1..Len(header)} : q.key = "t").t
    ELSE <<>>

HeaderV0(header) == {header[i].d : i \in {j \in 1..Len(header) : header[j].key = "v0"}}

\* the digests of the three candidate messages over the raw body
CandidateDigests(sec, bytes, t) ==
    {Hmac(sec, bytes), Hmac(sec, t \o <<".">> \o bytes), Hmac(sec, t \o bytes)}

\* C6: _verify_hmac accepts if and only if the header is present, holds a
\* non-empty v0, and v0 is the HMAC under the secret of the raw body, of
\* "{t}.{body}" or of "{t}{body}"; so a v0 over the raw body alone is accepted
\* for every t, wherever the t= and v0= parts stand in the header.
C6_AcceptsIffCandidate ==
    pc = "verified" =>
        (accepted <=>
            \E d \in HeaderV0(sig_header) :
                d # EmptyDigest /\ d \in CandidateDigests(secret, body, HeaderT(sig_header)))

\* the request that was answered last
Served == request.body # 0

ServedBytes == BodyPool[request.body].bytes

ServedJson == BodyPool[request.body].json

SignatureValid == _verify_hmac(HMAC_SECRET, ServedBytes, request.sig_header)

\* the payload is JSON and holds no agent id anywhere
NoAgentId ==
    /\ ServedJson.kind # "invalid"
    /\ ServedJson.agent_id = "" /\ ServedJson.agent = ""
    /\ ServedJson.data_agent_id = "" /\ ServedJson.data_agent = ""

\* the payload is a JSON object that holds this agent id
PayloadAgentId ==
    IF ServedJson.kind = "dict" /\ ServedJson.datakind # "other"
    THEN NormalizeAgentId(ServedJson) ELSE ""

\* a tenant config holds the agent id of the payload
TenantKnown ==
    \E i \in 1..Len(BOT_CONFIG_DIR) :
        /\ BOT_CONFIG_DIR[i].is_json /\ ~BOT_CONFIG_DIR[i].underscore
        /\ BOT_CONFIG_DIR[i].elevenlabs_agent_id = PayloadAgentId

\* C7: with signature verification on, the webhook handler answers 401 to
\* an invalid signature, else 400 to a payload without agent id, else 404 to
\* an agent id no tenant config holds; process_agent_event is invoked only
\* after the three checks passed, never for a request answered 401, 400 or 404.
C7_CheckOrder ==
    (Served /\ ~SKIP_HMAC) =>
        /\ ~SignatureValid => response = 401
        /\ (SignatureValid /\ NoAgentId) => response = 400
        /\ (SignatureValid /\ PayloadAgentId # "" /\ ~TenantKnown) => response = 404
        /\ invoked => (SignatureValid /\ PayloadAgentId # "" /\ TenantKnown)
        /\ response \in {401, 400, 404} => ~invoked

\* C8: when the fallback fails entirely (the first page request ends in a
\* transport error or a non-2xx status), get_agent_consumption_data returns a
\* result that is not ok.
C8_FallbackFailureExplicit ==
    (pc = "done" /\ pageReqs = 1 /\ tot.pages = 0) => ~result.ok

\* C9: the fallback aggregate counts a record only if its start timestamp is
\* present and >= the window's start boundary.
C9_WindowStartFilter == total_calls <= windowCalls

\* a record without any credits field, at top level or nested
NoCreditsField(c) ==
    /\ DOMAIN c.top \cap KeysContaining("credit") = {}
    /\ "credits" \notin (DOMAIN c.usage \cup DOMAIN c.billing \cup DOMAIN c.pricing)

\* C10: a record without any credits field and with a duration of D > 0
\* seconds contributes D * rate credits, for the configured positive
\* credits-per-second rate.
C10_CreditFallbackLaw ==
    (/\ pc = "normalized"
     /\ Len(page.items) = 1 /\ page.items[1].n = 1 /\ page.items[1].rec.isdict
     /\ page.kind = "list"
     /\ NoCreditsField(page.items[1].rec)
     /\ normalized.duration_secs > 0) =>
        \E rate \in 1..MaxFallbackRate : normalized.credits * 1000 = normalized.duration_secs * rate

\* C11: get_agent_consumption_data never propagates an exception to its
\* caller, whatever the upstream answers and whether or not the API key is
\* configured: every call ends by returning a result.
C11_NeverRaises == pc # "raised"

\* the arguments start_batch_call must reject
InvalidBatchArgs ==
    \/ recipients_json = NotAList
    \/ recipients_json = <<>>
    \/ agent_id = ""
    \/ phone_number_id = ""

\* C12: start_batch_call fails fast with an error result and issues no
\* outbound-call request when recipients is no list or an empty list, or
\* agent_id or phone_number_id is empty: such a call never gets past the
\* validation and never returns ok.
C12_FailFast ==
    InvalidBatchArgs =>
        /\ pc \in {"batch_start", "batch_done"}
        /\ outReqs = 0
        /\ pc = "batch_done" => (~batch_result.ok /\ batch_result.error # "")

\* C13: the first analytics variant that answers 2xx ends the primary step:
\* its normalized body is returned at once, no later variant and no later
\* round is requested, and _paginate_conversations is never called.
C13_FirstSuccessWins ==
    [][/\ last_status \notin 200..299
       /\ last_status' \in 200..299 =>
            /\ pc' = "done"
            /\ result'.ok
            /\ result'.data \in {Metrics(3, 12, 40000), Metrics(3, 5, 6000)}
            /\ pageReqs' = 0 /\ tot' = NoTot]_vars

\* C13 witness: the third variant of the second round answered 2xx and its
\* totals were returned
C13_Witness ==
    /\ pc = "done" /\ last_status = 200 /\ attempt = 2 /\ Len(roundLog) = 3
    /\ primReqs = 7 /\ pageReqs = 0 /\ result = [ok |-> TRUE, data |-> Metrics(3, 5, 6000)]

\* the primary step is over without a success
PrimaryGivenUp == pc \in {"paginate", "paginated", "done"} /\ last_status \notin 200..299

\* C18: when no variant succeeds and no 404 exit is taken,
\* get_agent_consumption_data runs exactly 3 rounds of the 4 variants in list
\* order, 12 requests, and sleeps only between rounds: 1.0 after round 1 and
\* 1.5 after round 2, never within a round and never after round 3.
C18_RetryRounds ==
    /\ Len(roundLog) <= 4
    /\ \A i \in 1..Len(roundLog) : roundLog[i].variant = Variants[i]
    /\ pc = "primary" =>
           /\ primReqs = 4 * (attempt - 1) + (vidx - 1)
           /\ sleeps = SubSeq(<<100, 150>>, 1, attempt - 1)
           /\ attempt <= 3
    /\ (PrimaryGivenUp /\ last_status # 404) =>
           (attempt = 3 /\ primReqs = 12 /\ sleeps = <<100, 150>>)

\* C18 witness: three rounds failed, the last request with a 503, and the
\* fallback is about to start
C18_Witness ==
    /\ pc = "paginate" /\ last_status = 503 /\ primReqs = 12 /\ sleeps = <<100, 150>>
    /\ Len(roundLog) = 4

\* C19: the primary step is abandoned before the third round only when
\* every variant of the round just completed answered 404; a round in which
\* one variant answered 503 and another 404 does not abandon it.
C19_AbandonOnlyOnAll404 ==
    (PrimaryGivenUp /\ attempt < 3) => \A i \in 1..Len(roundLog) : roundLog[i].status = 404

FlowDone == pc \in {"proc_done", "end_done"}

\* C15: in the processor and in /agendar_cita, book_appointment is called
\* only after check_availability returned true for the same date and time;
\* when it returned false a failure or conflict result is produced and no
\* booking request is made.
C15_BookOnlyIfAvailable ==
    /\ Len(bookings) <= 1
    /\ bookings # <<>> => (is_available = "True" /\ checks = bookings)
    /\ is_available = "False" =>
           /\ bookings = <<>>
           /\ pc \notin {"book", "sms"}
           /\ (FlowDone /\ flow = "endpoint") => answer = Http(409)
           /\ (FlowDone /\ flow = "processor") =>
                  (answer.kind = "results" /\ "agendamiento" \in DOMAIN answer.results
                   /\ answer.results["agendamiento"] \notin {"success", "error"})

\* C15 witness: the processor booked the slot it had found available
C15_Witness ==
    /\ flow = "processor" /\ pc = "proc_done" /\ is_available = "True"
    /\ checks = <<cita>> /\ bookings = <<cita>> /\ book_result = "success"

\* C16: after a booking succeeded, no outcome of the notifications changes
\* or removes the booking result: process_agent_event returns the
\* successful agendamiento entry and /agendar_cita answers 200.
C16_BookingResultKept ==
    (book_result = "success" /\ FlowDone) =>
        IF flow = "endpoint" THEN answer = Http(200)
        ELSE /\ answer.kind = "results"
             /\ "agendamiento" \in DOMAIN answer.results
             /\ answer.results["agendamiento"] = "success"

\* C17: signature verification is skipped only when ELEVENLABS_SKIP_HMAC is
\* explicitly set to "true"; with the variable unset every webhook request
\* is verified before its body is parsed, and the service refuses to start
\* when the secret is empty and the bypass is off.
C17_BypassOnlyExplicit ==
    /\ (pc # "loading" /\ SKIP_HMAC) => ELEVENLABS_SKIP_HMAC \in {"true", " TRUE ", "True"}
    /\ (ELEVENLABS_SKIP_HMAC = Unset /\ Served /\ ~SignatureValid) =>
           (response = 401 /\ ~invoked)
    /\ (ELEVENLABS_SKIP_HMAC = Unset /\ invoked) => SignatureValid
    /\ (ELEVENLABS_HMAC_SECRET \in {Unset, "", "  "}
          /\ ELEVENLABS_SKIP_HMAC \notin {"true", " TRUE ", "True"}) =>
           (pc \in {"loading", "refused"} /\ ~Served)

\* C17 witness: with the variable unset, a request with a bad signature was
\* answered 401 after one with a good signature had reached the processor
C17_Witness ==
    /\ ELEVENLABS_SKIP_HMAC = Unset /\ ~SKIP_HMAC /\ Served /\ ~SignatureValid
    /\ response = 401 /\ AGENT_ID_TO_FILENAME_CACHE # Empty

\* the page last fetched with success, and what its body exposes
Fetched == lastResp # 0 /\ ~PagePool[lastResp].err /\ Is2xx(PagePool[lastResp].status)

FetchedData == PagePool[lastResp].data

ExposesNextUrl == FetchedData.kind = "dict" /\ FetchedData.next # ""

ExposesCursor ==
    FetchedData.kind = "dict" /\ (FetchedData.next_cursor # "" \/ FetchedData.cursor # "")

ExposesToken ==
    FetchedData.kind = "dict"
    /\ (FetchedData.next_page_token # "" \/ FetchedData.nextToken # ""
         \/ FetchedData.pageToken # "")

HasMoreOrFull ==
    \/ FetchedData.kind = "dict" /\ FetchedData.has_more
    \/ ItemCount(_extract_items(FetchedData)) >= 200

ExposesMore == ExposesNextUrl \/ ExposesCursor \/ ExposesToken \/ HasMoreOrFull

\* what the claim says of the offset after a fetched page
OffsetRule ==
    /\ (ExposesNextUrl \/ ExposesCursor \/ ExposesToken) => offset = 0
    /\ offset = lastReq.offset + 200 =>
           (HasMoreOrFull /\ ~(ExposesNextUrl \/ ExposesCursor \/ ExposesToken))
    /\ (HasMoreOrFull /\ ~(ExposesNextUrl \/ ExposesCursor \/ ExposesToken)) =>
           offset = lastReq.offset + 200

\* C20 as stated: after a successfully fetched page another page is
\* requested if and only if the response exposes a next URL, a cursor, a
\* page token, has_more true or a full page; the offset is advanced by 200
\* only in the has_more/full-page case and reset to 0 in the other three.
C20_NextPageIffExposed ==
    Fetched => /\ (pc = "paginate") <=> ExposesMore
               /\ OffsetRule

\* C20, amended: after a successfully fetched page another page is requested
\* if and only if fewer than 200 pages have been fetched and the response
\* exposes a next URL, a cursor, a page token, has_more true or a full page;
\* the offset is advanced by 200 only in the has_more/full-page case and
\* reset to 0 in the other three.
C20_NextPageIffExposedBelowCap ==
    Fetched => /\ (pc = "paginate") <=> (ExposesMore /\ pages < 200)
               /\ OffsetRule

\* C20 witness: the offset was advanced a second time, after a full page
\* that was a bare list, and the loop goes on
C20_Witness ==
    /\ Fetched /\ FetchedData.kind = "list" /\ HasMoreOrFull
    /\ lastReq.offset = 200 /\ offset = 400 /\ pc = "paginate"

\* a response that ends the pagination at line 306
PageFailed(i) == PagePool[i].err \/ PagePool[i].status < 200 \/ PagePool[i].status >= 300

\* C21: each fetched page adds its own contribution to the running sums, in
\* the order received, and when the request for the next page fails the
\* function returns the sums and the page count as they stood before that
\* request: the failed page contributes nothing and nothing earlier is lost.
C21_PartialAggregate ==
    [][(pc = "paginate" /\ pageReqs' = pageReqs + 1) =>
         IF PageFailed(lastResp')
         THEN /\ pc' = "paginated"
              /\ tot'.calls = total_calls /\ tot'.credits = total_credits
              /\ tot'.duration_secs = total_secs /\ tot'.pages = pages
              /\ total_calls' = total_calls /\ pages' = pages
         ELSE LET c == _normalize_conversations_list(PagePool[lastResp'].data)
              IN  /\ total_calls' = total_calls + c.calls
                  /\ total_credits' = total_credits + c.credits
                  /\ total_secs' = total_secs + c.duration_secs
                  /\ pages' = pages + 1
                  /\ (pc' = "paginated" =>
                        /\ tot'.calls = total_calls' /\ tot'.credits = total_credits'
                        /\ tot'.duration_secs = total_secs' /\ tot'.pages = pages')]_vars

\* C21 witness: the third request failed after two pages that counted calls
C21_Witness ==
    /\ pc = "paginated" /\ lastResp # 0 /\ PageFailed(lastResp)
    /\ pageReqs = 3 /\ tot.pages = 2 /\ tot.calls > 2 /\ tot.credits > 0

\* the success indicator of a record, "" when the record has none
SuccessIndicator(rec) ==
    IF "call_successful" \in DOMAIN rec THEN rec.call_successful ELSE ""

\* the records of a page that are calls by the rule of the specification
CallsNotFailed(items) ==
    SumSeq([i \in 1..Len(items) |->
              IF items[i].rec.isdict /\ SuccessIndicator(items[i].rec) # "failure"
              THEN items[i].n ELSE 0])

\* C22: in the fallback aggregation a record is counted as a call only if
\* its success indicator, when present, is not "failure"; a record without
\* the indicator is counted.
C22_FailedCallsNotCounted ==
    pc = "normalized" => normalized.calls = CallsNotFailed(_extract_items(page))

\* the answer to the request just made, and the statuses the claim names
Answer == CallPool[lastOut]

MayRepeat(r) == r.err \/ r.status = 429 \/ r.status \in 500..599

FinalError(r) == ~r.err /\ ~(r.status \in 200..299) /\ ~MayRepeat(r)

\* C23: _post_outbound_call repeats a request only after a transport error
\* or a status that is 429 or 5xx; any other non-2xx status ends the call
\* at once, with no request after that answer, and is returned as a failure
\* carrying that status.
C23_RetryOnlyTransient ==
    [][(pc = "batch_loop" /\ outReqs' = outReqs + 1) =>
         /\ (curReqs' = curReqs + 1) => MayRepeat(Answer')
         /\ FinalError(Answer') =>
              /\ curReqs' = 0 /\ idx' = idx + 1
              /\ lastCall'.row = idx + 1 /\ lastCall'.reqs = curReqs + 1
              /\ ~lastCall'.ok /\ lastCall'.status = Answer'.status
              /\ lastCall'.err = "ElevenLabs error"
              /\ failed' = failed + 1]_vars

\* C23 witness: a 400 on the first request ended a recipient's call
C23_Witness ==
    /\ lastOut # 0 /\ Answer.status = 400 /\ lastCall.reqs = 1 /\ lastCall.status = 400
    /\ ~lastCall.ok /\ failed >= 1 /\ outReqs = 1

\* a required field that the extractor did not deliver
RequiredFieldMissing ==
    \/ customer_data_raw.cliente_nombre_completo \in {NoKey, ""}
    \/ customer_data_raw.cliente_telefono \in {NoKey, ""}
    \/ customer_data_raw.cliente_email \in {NoKey, ""}
    \/ cita[1] = "" \/ cita[2] = ""

\* C24: when a required extracted field (name, phone, email, date, time) is
\* missing, process_agent_event neither checks availability nor calls
\* book_appointment, and no booking is made with a placeholder or an empty
\* value.
C24_NoBookingOnMissingField ==
    flow = "processor" =>
        /\ RequiredFieldMissing => (checks = <<>> /\ bookings = <<>>)
        /\ \A i \in 1..Len(book_args) :
              /\ book_args[i].nombre \notin {"N/A", ""}
              /\ book_args[i].telefono \notin {"N/A", ""}
              /\ book_args[i].email \notin {"N/A", ""}

\* C25: the cache is populated only by a successful resolution and never
\* invalidated: an entry, once made, stays as it is; a lookup of a cached id
\* returns the cached file name without reading the directory, whatever the
\* directory holds by then; a failed lookup adds no entry, and a lookup of an
\* id that is not cached reads the directory.
C25_CacheNeverInvalidated ==
    [][/\ \A id \in DOMAIN AGENT_ID_TO_FILENAME_CACHE :
            /\ id \in DOMAIN AGENT_ID_TO_FILENAME_CACHE'
            /\ AGENT_ID_TO_FILENAME_CACHE'[id] = AGENT_ID_TO_FILENAME_CACHE[id]
       /\ last_lookup' # last_lookup =>
            LET id == last_lookup'.agent_id
            IN  /\ id \in DOMAIN AGENT_ID_TO_FILENAME_CACHE =>
                     /\ last_lookup'.filename = AGENT_ID_TO_FILENAME_CACHE[id]
                     /\ ~last_lookup'.scanned
                /\ id \notin DOMAIN AGENT_ID_TO_FILENAME_CACHE => last_lookup'.scanned
                /\ last_lookup'.filename = NoFile =>
                     AGENT_ID_TO_FILENAME_CACHE' = AGENT_ID_TO_FILENAME_CACHE
       /\ AGENT_ID_TO_FILENAME_CACHE' # AGENT_ID_TO_FILENAME_CACHE =>
            /\ last_lookup'.filename # NoFile
            /\ DOMAIN AGENT_ID_TO_FILENAME_CACHE' =
                 DOMAIN AGENT_ID_TO_FILENAME_CACHE \cup {last_lookup'.agent_id}
            /\ AGENT_ID_TO_FILENAME_CACHE'[last_lookup'.agent_id] = last_lookup'.filename]_vars

\* C25 witness: agent_1 was answered from the cache with the file name that
\* the directory no longer holds, and agent_9 has failed without an entry
C25_Witness ==
    /\ pc = "lookups" /\ "agent_1" \in DOMAIN AGENT_ID_TO_FILENAME_CACHE
    /\ AGENT_ID_TO_FILENAME_CACHE["agent_1"] = "sundin.json"
    /\ "agent_9" \notin DOMAIN AGENT_ID_TO_FILENAME_CACHE
    /\ agents_dir = << >>
    /\ last_lookup = [agent_id |-> "agent_1", filename |-> "sundin.json", scanned |-> FALSE]

\* C26: every usage window that /agent/data passes to the aggregator has
\* start <= end, for all well-formed start_date and end_date, the end
\* boundary being the last second of the end day.
C26_WindowOrdered ==
    (pc \in {"panel_call", "panel_done"} /\ panel_call.fn = "get_agent_consumption_data") =>
        /\ panel_call.kwargs.start_unix <= panel_call.kwargs.end_unix
        /\ panel_call.kwargs.end_unix = Midnight(panel_request.end_date) + 86399

\* C30: an authenticated panel request with valid input and a fully
\* configured tenant reaches the service function with arguments that the
\* function accepts: the function runs, and the request does not fail before
\* an upstream call.
ValidPanelRequest ==
    /\ panel_request.config.elevenlabs_agent_id # ""
    /\ panel_request.config.eleven_phone_number_id # ""
    /\ \/ /\ panel_request.endpoint = "/agent/data"
          /\ WellFormed(panel_request.start_date) /\ WellFormed(panel_request.end_date)
       \/ /\ panel_request.endpoint = "/agent/start-batch-call"
          /\ panel_request.csv_file.filename = "lote.csv"
          /\ panel_request.csv_file.header[1] = "phone_number"
          /\ panel_request.csv_file.cells # <<>>

C30_HandlerReachesService ==
    (ValidPanelRequest /\ pc = "panel_done") => (upstream_called /\ panel_response = 200)

\* C27: every page request that _paginate_conversations sends to the listing
\* URL carries the agent_id filter and the window and limit parameters it
\* started with, also after an earlier page was reached through an absolute
\* `next` URL.
C27_FilterOnEveryRequest ==
    (lastReq # NoReq /\ lastReq.url = BaseUrl) => BaseParams \subseteq lastReq.keys

\* C28: process_agent_event reports email_cliente with status "ok" only if
\* the client email was actually sent.
C28_ClientEmailOkOnlyIfSent ==
    (flow = "processor" /\ "email_cliente" \in DOMAIN results
       /\ results["email_cliente"] = "ok") => client_email = "sent"

\* C29: check_availability fails closed: it returns true only when the
\* free/busy query completed and reported no busy slot; every failure
\* (credentials, malformed date or time, API error, unexpected response
\* shape) yields false, never an exception and never true.
C29_FailsClosed ==
    /\ pc # "raised"
    /\ slot_free = "True" =>
          /\ key_file_ok
          /\ time_min = <<date_str, time_str>>
          /\ ~FreeBusyPool[freebusy].raises
          /\ FreeBusyPool[freebusy].has_calendars /\ FreeBusyPool[freebusy].has_entry
          /\ FreeBusyPool[freebusy].has_busy /\ FreeBusyPool[freebusy].busy = 0
          /\ FreeBusyPool[freebusy].errors = 0

====
